---- MODULE Spec2Model ----
(***************************************************************************)
(* The byte-code VM of anzu (src/src/runtime.cpp): a byte-addressed stack, *)
(* a heap managed by an allocator, base_ptr and prog_ptr, and one action   *)
(* per op of apply_op.  Values on the stack are raw bytes; a u64 is eight  *)
(* little-endian bytes.  Further down: the built-in functions              *)
(* (src/src/functions.cpp), the driver (src/src/anzu.m.cpp) and the        *)
(* scanner (src/src/lexer.cpp), each with a specification of its own.      *)
(***************************************************************************)
EXTENDS Integers, Sequences, FiniteSets, TLC

VARIABLES
    stack,            \* runtime_context::stack, a sequence of bytes
    heap,             \* runtime_context::heap, a sequence of bytes
    bytes_allocated,  \* allocator.bytes_allocated()
    free_blocks,      \* blocks returned to the allocator: [ptr, size]
    base_ptr,         \* runtime_context::base_ptr
    prog_ptr,         \* runtime_context::prog_ptr
    status,           \* "running", "exited" (loop ended), "failed" (std::exit(1)),
                      \* "crashed" (an out-of-bounds access brought the process down)
    output,           \* the messages printed by the VM itself
    calls,            \* history: one record per active function_call
    live,             \* history: the allocations not yet deallocated
    writes,           \* history: the save ops whose bytes nothing has overwritten
    last,             \* history: the op dispatched last, with what it read
    steps,            \* history: the number of ops dispatched
    debug,            \* TRUE when the loop is run_program_debug's
    trace,            \* what run_program_debug prints around each dispatch
    builtins,         \* functions.cpp: the static table of built-ins
    lookup,           \* history: the last is_builtin / fetch_builtin call
    exit_code,        \* the process's exit code, Alive while it runs
    argc,             \* main's argc
    mode,             \* main's argv[2]
    invoked,          \* history: the stages main has invoked, in order
    source,           \* the source text, a sequence of characters
    scanner,          \* the scanner: start, curr (offsets into source), line, col
    tokens,           \* history: the tokens get_token has returned, in order
    lexing,           \* "ready", "eof" (eof returned), "error" (lexer_error)
    stream,           \* the tokenstream: d_ctx, d_curr, d_next
    advances,         \* history: the number of consume calls on the tokenstream
    called,           \* history: the last call on the tokenstream or the parser
    ast,              \* the node the expression parser returned
    value             \* the integer consume_i64 or consume_u64 returned, in limbs

\* the VM
vm_vars == <<stack, heap, bytes_allocated, free_blocks, base_ptr, prog_ptr,
             status, output, calls, live, writes, last, steps>>
\* which loop runs the VM
run_vars == <<debug, trace>>
\* the built-in table
builtin_vars == <<builtins, lookup>>
\* the driver
main_vars == <<argc, mode, invoked>>
\* the scanner
lex_vars == <<source, scanner, tokens, lexing>>

\* the tokenstream and the parser
parse_vars == <<stream, advances, called, ast, value>>
vars == <<vm_vars, run_vars, builtin_vars, exit_code, main_vars, lex_vars, parse_vars>>

----------------------------------------------------------------------------
(* Bounds of the model *)

\* program.size(): the run loop dispatches while prog_ptr < ProgSize; a run
\* dispatches ProgSize ops at most
ProgSize == 7
\* longest stack, in bytes
MaxStack == 40
\* largest heap, in bytes
MaxHeap == 32
\* deepest nesting of function calls
MaxDepth == 2

----------------------------------------------------------------------------
(* 64-bit values as eight little-endian bytes *)

\* sizeof(std::uint64_t)
WordSize == 8

\* stands for every offset of 2^24 and more: beyond any region of the model
Huge == 256 * 256 * 256

\* the bytes push_value / write_value store for a u64 n < 2^24
to_bytes(n) ==
    [i \in 1..WordSize |->
        IF i = 1 THEN n % 256
        ELSE IF i = 2 THEN (n \div 256) % 256
        ELSE IF i = 3 THEN (n \div (256 * 256)) % 256
        ELSE 0]

\* the u64 pop_value / read_value read from eight bytes
from_bytes(w) ==
    IF \A i \in 4..WordSize : w[i] = 0
    THEN w[1] + 256 * w[2] + 256 * 256 * w[3]
    ELSE Huge

set_top_bit(w)   == [w EXCEPT ![WordSize] = IF @ >= 128 THEN @ ELSE @ + 128]
unset_top_bit(w) == [w EXCEPT ![WordSize] = IF @ >= 128 THEN @ - 128 ELSE @]
get_top_bit(w)   == w[WordSize] >= 128

set_rom_bit(w)   == [w EXCEPT ![WordSize] = IF (@ \div 64) % 2 = 1 THEN @ ELSE @ + 64]
is_rom_ptr(w)    == (w[WordSize] \div 64) % 2 = 1
is_heap_ptr(w)   == w[WordSize] >= 128

----------------------------------------------------------------------------
(* Byte vectors *)

top_bytes(mem, n)       == SubSeq(mem, Len(mem) - n + 1, Len(mem))
drop_bytes(mem, n)      == SubSeq(mem, 1, Len(mem) - n)
read_bytes(mem, at, n)  == SubSeq(mem, at + 1, at + n)
write_bytes(mem, at, b) ==
    [i \in 1..Len(mem) |-> IF at < i /\ i <= at + Len(b) THEN b[i - at] ELSE mem[i]]

\* pop_value<std::uint64_t>: the top eight bytes
pop_value(mem)  == top_bytes(mem, WordSize)
\* push_value of a u64 given as its bytes
push_value(mem, w) == mem \o w
\* read_value<std::uint64_t>(mem, at)
read_value(mem, at) == from_bytes(read_bytes(mem, at, WordSize))
\* write_value that stores at the end of the vector
write_value_at_end(mem, at, n) == write_bytes(mem, Len(mem) - WordSize, to_bytes(n))
\* write_value(mem, at, n) of a u64
write_value(mem, at, n) == write_bytes(mem, at, to_bytes(n))

\* [a, a+n) and [b, b+m) share a byte
Overlap(a, n, b, m) == n > 0 /\ m > 0 /\ a < b + m /\ b < a + n

RECURSIVE copy_forward(_, _, _, _, _)
copy_forward(mem, dst, src, n, i) ==
    IF i = n THEN mem
    ELSE copy_forward([mem EXCEPT ![dst + i + 1] = mem[src + i + 1]], dst, src, n, i + 1)

RECURSIVE copy_backward(_, _, _, _, _)
copy_backward(mem, dst, src, n, i) ==
    IF i = 0 THEN mem
    ELSE copy_backward([mem EXCEPT ![dst + i] = mem[src + i]], dst, src, n, i - 1)

\* memmove inside one vector: the destination gets the source's old bytes
memmove(mem, dst, src, n) == write_bytes(mem, dst, read_bytes(mem, src, n))

\* std::memcpy inside one vector: defined for disjoint ranges only; for
\* overlapping ranges the result is whatever the library's copy loop leaves,
\* front to back or back to front
memcpy(mem, dst, src, n) ==
    IF Overlap(dst, n, src, n) /\ dst # src
    THEN {copy_forward(mem, dst, src, n, 0), copy_backward(mem, dst, src, n, n)}
    ELSE {memmove(mem, dst, src, n)}

----------------------------------------------------------------------------
(* The allocator behind ctx.allocator (utility/memory.hpp) *)

\* allocator.allocate(size): the heap offsets it may hand out, a block of that
\* size returned earlier or the end of the heap
allocator_allocate(size) ==
    {b.ptr : b \in {f \in free_blocks : f.size = size}} \cup {Len(heap)}

\* the heap once it holds [ptr, ptr + size)
heap_with(ptr, size) ==
    IF ptr + size > Len(heap)
    THEN heap \o [i \in 1..(ptr + size - Len(heap)) |-> 0]
    ELSE heap

\* allocator.deallocate(ptr, size): the block goes back to the pool
allocator_deallocate(ptr, size) == free_blocks \cup {[ptr |-> ptr, size |-> size]}

\* allocator.bytes_allocated() after allocate(size)
allocated_after_allocate(size) == bytes_allocated + size

\* allocator.bytes_allocated() after deallocate(ptr, size)
allocated_after_deallocate(size) == bytes_allocated - size

----------------------------------------------------------------------------
(* History variables *)

NoCall == [S |-> 0, B |-> 0, P |-> 0, args |-> 0, base |-> 0, inner |-> FALSE]

NoOp == [kind |-> "none", size |-> 0, arg |-> 0, payload |-> 0, ptr |-> <<>>, bytes |-> <<>>,
         pre_size |-> 0, pre_alloc |-> 0, pre_heap |-> <<>>, region |-> "none",
         call |-> NoCall, expect |-> {}, expect_any |-> {}, undefined |-> FALSE]

\* the recorded writes that still lie inside the stack stk
Surviving(W, stk) == {w \in W : w.region = "heap" \/ w.at + w.n <= Len(stk)}

\* the recorded writes, those that another op's write into [at, at+n) of the
\* region hit marked
Clobber(W, region, at, n) ==
    {IF w.region = region /\ Overlap(w.at, w.n, at, n)
     THEN [w EXCEPT !.clobbered = TRUE] ELSE w : w \in W}

\* the recorded writes without those a save into [at, at+n) overlaps
Overwrite(W, region, at, n) ==
    {w \in W : ~(w.region = region /\ Overlap(w.at, w.n, at, n))}

\* the 16 bytes a function_call filled at the base of each active frame
InHeader(at, n) == \E i \in 1..Len(calls) : Overlap(at, n, calls[i].base, 2 * WordSize)

\* the lowest stack size the current frame allows
FrameFloor == IF calls = <<>> THEN 0 ELSE base_ptr + 2 * WordSize

RECURSIVE SumSizes(_)
SumSizes(S) ==
    IF S = {} THEN 0
    ELSE LET a == CHOOSE x \in S : TRUE IN a.size + SumSizes(S \ {a})

----------------------------------------------------------------------------
(* Operands of the ops of the model's programs *)

\* the two slots pushed ahead of a call's arguments, every byte different
Slots16 == [i \in 1..(2 * WordSize) |-> i + 1]

LoadBytesOperands == {to_bytes(1), Slots16, set_rom_bit(to_bytes(0))}
GlobalPositions   == {0}
LocalOffsets      == {0}
LoadSizes         == {8, 16}
SaveSizes         == {8}
PopSizes          == {8}
TypeSizes         == {8}
ReturnSizes       == {8, 24}
ArgsSizes         == {16, 24}
CallTargets       == {2}
\* what an out-of-bounds read may find
UndefinedBytes    == {170}

\* exit_code while the process runs
Alive == -1
\* lookup before any call
NoLookup == [fn |-> "none", name |-> "", args |-> <<>>, found |-> FALSE, entry |-> <<>>]
\* scanner before its constructor has run
\* peeked is history: the highest offset the scanner has dereferenced so far
NoScanner == [start |-> 0, curr |-> 0, line |-> 1, col |-> 1, peeked |-> -1]

\* no tokenstream is built and no expression parsed
NoToken == [text |-> <<>>, offset |-> 0, line |-> 0, col |-> 0, type |-> "none"]
NoStream == [ctx |-> NoScanner, curr |-> NoToken, next |-> NoToken]
NoCalled == [name |-> "none", tt |-> "none", ret |-> FALSE, token |-> NoToken]
NoNode == [type |-> "none", token |-> NoToken, children |-> <<>>, value |-> <<>>, name |-> <<>>]
NoParsing ==
    stream = NoStream /\ advances = 0 /\ called = NoCalled /\ ast = NoNode /\ value = <<>>

Init ==
    /\ stack = <<>>
    /\ heap = <<>>
    /\ bytes_allocated = 0
    /\ free_blocks = {}
    /\ base_ptr = 0
    /\ prog_ptr = 0
    /\ status = "running"
    /\ output = <<>>
    /\ calls = <<>>
    /\ live = {}
    /\ writes = {}
    /\ last = NoOp
    /\ steps = 0
    /\ debug = FALSE
    /\ trace = <<>>
    /\ builtins = {}
    /\ lookup = NoLookup
    /\ exit_code = Alive
    /\ argc = 3
    /\ mode = "run"
    /\ invoked = <<>>
    /\ source = <<>>
    /\ scanner = NoScanner
    /\ tokens = <<>>
    /\ lexing = "ready"
    /\ NoParsing

----------------------------------------------------------------------------
(* apply_op: one action per op *)

\* runtime_assert_fails without the std::exit(1)
runtime_assert_prints_only(msg) ==
    /\ output' = Append(output, [msg |-> msg, n |-> 0])
    /\ status' = status

\* runtime_assert with a false condition: the message is printed, std::exit(1)
runtime_assert_fails(msg) ==
    /\ output' = Append(output, [msg |-> msg, n |-> 0])
    /\ status' = "failed"

op_load_bytes(bytes) ==
    /\ stack' = stack \o bytes
    /\ prog_ptr' = prog_ptr + 1
    /\ last' = [NoOp EXCEPT !.kind = "load_bytes", !.size = Len(bytes),
                            !.pre_size = Len(stack)]
    /\ UNCHANGED <<heap, bytes_allocated, free_blocks, base_ptr, status, output,
                   calls, live, writes>>

op_push_global_addr(position) ==
    /\ stack' = push_value(stack, to_bytes(position))
    /\ prog_ptr' = prog_ptr + 1
    /\ last' = [NoOp EXCEPT !.kind = "push_global_addr", !.arg = position,
                            !.pre_size = Len(stack)]
    /\ UNCHANGED <<heap, bytes_allocated, free_blocks, base_ptr, status, output,
                   calls, live, writes>>

op_push_local_addr(offset) ==
    /\ stack' = push_value(stack, to_bytes(base_ptr + offset))
    /\ prog_ptr' = prog_ptr + 1
    /\ last' = [NoOp EXCEPT !.kind = "push_local_addr", !.arg = offset,
                            !.pre_size = Len(stack)]
    /\ UNCHANGED <<heap, bytes_allocated, free_blocks, base_ptr, status, output,
                   calls, live, writes>>

\* load_loop without the + i: the first byte, size times
RECURSIVE load_loop_first_byte(_, _, _, _)
load_loop_first_byte(stk, at, size, i) ==
    IF i = size THEN stk
    ELSE load_loop_first_byte(Append(stk, stk[at + 1]), at, size, i + 1)

\* for (i = 0; i != size; ++i) stack.push_back(stack[at + i])
RECURSIVE load_loop(_, _, _, _)
load_loop(stk, at, size, i) ==
    IF i = size THEN stk
    ELSE load_loop(Append(stk, stk[at + i + 1]), at, size, i + 1)

\* the region op_load reads for the pointer it popped
load_region(ptr) == IF get_top_bit(ptr) THEN "heap" ELSE "stack"

\* region_offset that drops both tag bits
region_offset_untagged(ptr) == from_bytes([ptr EXCEPT ![WordSize] = @ % 64])

\* the offset op_load and op_save use inside that region
region_offset(ptr) ==
    IF get_top_bit(ptr) THEN from_bytes(unset_top_bit(ptr)) ELSE from_bytes(ptr)

\* every byte op_load reads exists
load_in_bounds(ptr, rest, size) ==
    IF get_top_bit(ptr)
    THEN region_offset(ptr) + size <= Len(heap)
    ELSE size = 0 \/ region_offset(ptr) < Len(rest)

op_load(size) ==
    LET ptr  == pop_value(stack)
        rest == drop_bytes(stack, WordSize)
        at   == region_offset(ptr)
        hit  == {w \in Surviving(writes, rest) : w.region = load_region(ptr) /\ w.at = at /\ w.n = size}
        rec  == [NoOp EXCEPT !.kind = "load", !.size = size, !.ptr = ptr,
                             !.pre_size = Len(stack), !.region = load_region(ptr),
                             !.expect = {w.v : w \in {x \in hit : ~x.clobbered}},
                             !.expect_any = {w.v : w \in hit}]
    IN  /\ IF load_in_bounds(ptr, rest, size)
           THEN /\ stack' = IF get_top_bit(ptr)
                            THEN rest \o read_bytes(heap, at, size)
                            ELSE load_loop(rest, at, size, 0)
                /\ prog_ptr' = prog_ptr + 1
                /\ status' = status
                /\ last' = rec
           ELSE \* heap[at + i] or stack[at + i] is outside the vector
                /\ last' = [rec EXCEPT !.undefined = TRUE]
                /\ \/ /\ status' = "crashed"
                      /\ stack' = rest
                      /\ prog_ptr' = prog_ptr
                   \/ /\ \E g \in UndefinedBytes : stack' = rest \o [i \in 1..size |-> g]
                      /\ prog_ptr' = prog_ptr + 1
                      /\ status' = status
        /\ writes' = Surviving(writes, rest)
        /\ UNCHANGED <<heap, bytes_allocated, free_blocks, base_ptr, output, calls, live>>

op_save(size) ==
    LET ptr  == pop_value(stack)
        rest == drop_bytes(stack, WordSize)
        at   == region_offset(ptr)
        v    == top_bytes(rest, size)
        rec  == [NoOp EXCEPT !.kind = "save", !.size = size, !.ptr = ptr, !.bytes = v,
                             !.pre_size = Len(stack), !.region = load_region(ptr)]
        new  == [region |-> load_region(ptr), at |-> at, n |-> size, v |-> v,
                 clobbered |-> FALSE]
    IN  /\ last' = rec
        /\ IF get_top_bit(ptr)
           THEN /\ heap' = write_bytes(heap, at, v)
                /\ stack' = drop_bytes(rest, size)
                /\ prog_ptr' = prog_ptr + 1
                /\ writes' = Surviving(Overwrite(writes, "heap", at, size) \cup {new}, stack')
                /\ UNCHANGED <<status, output>>
           ELSE IF ~(at + size <= Len(rest))
           THEN /\ runtime_assert_fails("tried to access invalid memory address")
                /\ stack' = rest
                /\ writes' = Surviving(writes, stack')
                /\ UNCHANGED <<heap, prog_ptr>>
           ELSE /\ IF at + size < Len(rest)
                   THEN \E m \in memcpy(rest, at, Len(rest) - size, size) :
                            stack' = drop_bytes(m, size)
                   ELSE stack' = rest
                /\ prog_ptr' = prog_ptr + 1
                /\ writes' = Surviving(Overwrite(writes, "stack", at, size) \cup {new}, stack')
                /\ UNCHANGED <<heap, status, output>>
        /\ UNCHANGED <<bytes_allocated, free_blocks, base_ptr, calls, live>>

op_pop(size) ==
    /\ stack' = drop_bytes(stack, size)
    /\ prog_ptr' = prog_ptr + 1
    /\ writes' = Surviving(writes, stack')
    /\ last' = [NoOp EXCEPT !.kind = "pop", !.size = size, !.pre_size = Len(stack)]
    /\ UNCHANGED <<heap, bytes_allocated, free_blocks, base_ptr, status, output,
                   calls, live>>

\* the bytes op_allocate asks the allocator for
request_size(count, type_size) == count * type_size + WordSize

\* the size op_allocate stores at the start of the block
stored_size(count, type_size) == count * type_size

\* pointer_past_size without the + 8: a pointer to the stored size
pointer_at_size(ptr) == set_top_bit(to_bytes(ptr))

\* the pointer op_allocate pushes for the block at heap offset ptr
pointer_past_size(ptr) == set_top_bit(to_bytes(ptr + WordSize))

op_allocate(type_size) ==
    LET count == from_bytes(pop_value(stack))
        rest  == drop_bytes(stack, WordSize)
        size  == request_size(count, type_size)
    IN  \E ptr \in allocator_allocate(size) :
          LET given == pointer_past_size(ptr) IN
          /\ heap' = write_value(heap_with(ptr, size), ptr, stored_size(count, type_size))
          /\ bytes_allocated' = allocated_after_allocate(size)
          /\ free_blocks' = free_blocks \ {[ptr |-> ptr, size |-> size]}
          /\ stack' = push_value(rest, given)
          /\ prog_ptr' = prog_ptr + 1
          /\ live' = live \cup {[ptr |-> given, h |-> ptr, size |-> size,
                                 payload |-> stored_size(count, type_size)]}
          /\ writes' = Clobber(Surviving(writes, rest), "heap", ptr, WordSize)
          /\ last' = [NoOp EXCEPT !.kind = "allocate", !.size = size,
                                  !.arg = ptr, !.payload = stored_size(count, type_size),
                                  !.expect = {count * type_size},
                                  !.ptr = given, !.pre_size = Len(stack),
                                  !.pre_alloc = bytes_allocated]
          /\ UNCHANGED <<base_ptr, status, output, calls>>

\* block_size without the size header
block_size_payload_only(size) == size

\* the bytes op_deallocate returns for a block whose stored size is size
block_size(size) == size + WordSize

op_deallocate ==
    LET ptr  == pop_value(stack)
        rest == drop_bytes(stack, WordSize)
        rec  == [NoOp EXCEPT !.kind = "deallocate", !.ptr = ptr,
                             !.pre_size = Len(stack), !.pre_alloc = bytes_allocated,
                             !.pre_heap = heap,
                             !.arg = SumSizes({a \in live : a.ptr = ptr})]
    IN  /\ stack' = rest
        /\ writes' = Surviving(writes, stack')
        /\ IF ~get_top_bit(ptr)
           THEN /\ runtime_assert_fails("cannot delete a pointer to stack memory")
                /\ last' = rec
                /\ UNCHANGED <<bytes_allocated, free_blocks, prog_ptr, live>>
           ELSE LET heap_ptr == from_bytes(unset_top_bit(ptr)) - WordSize
                    size     == read_value(heap, heap_ptr)
                IN  /\ free_blocks' = allocator_deallocate(heap_ptr, block_size(size))
                    /\ bytes_allocated' = allocated_after_deallocate(block_size(size))
                    /\ prog_ptr' = prog_ptr + 1
                    /\ live' = {a \in live : a.ptr # ptr}
                    /\ last' = [rec EXCEPT !.size = block_size(size)]
                    /\ UNCHANGED <<status, output>>
        /\ UNCHANGED <<heap, base_ptr, calls>>

\* return_position without the + 1: the call site itself
return_position_call_site == prog_ptr

\* the position after the function call, saved for op_return
return_position == prog_ptr + 1

op_function_call(target, args_size) ==
    LET new_base_ptr == Len(stack) - args_size IN
    /\ stack' = write_value(write_value(stack, new_base_ptr, base_ptr),
                            new_base_ptr + WordSize, return_position)
    /\ base_ptr' = new_base_ptr
    /\ prog_ptr' = target
    /\ calls' = Append([i \in 1..Len(calls) |-> [calls[i] EXCEPT !.inner = TRUE]],
                        [S |-> Len(stack), B |-> base_ptr, P |-> prog_ptr,
                         args |-> args_size, base |-> new_base_ptr, inner |-> FALSE])
    /\ writes' = Clobber(writes, "stack", new_base_ptr, 2 * WordSize)
    /\ last' = [NoOp EXCEPT !.kind = "function_call", !.size = args_size,
                            !.arg = target, !.pre_size = Len(stack)]
    /\ UNCHANGED <<heap, bytes_allocated, free_blocks, status, output, live>>

op_return(size) ==
    LET prev_base_ptr == read_value(stack, base_ptr)
        prev_prog_ptr == read_value(stack, base_ptr + WordSize)
    IN  /\ \E m \in memcpy(stack, base_ptr, Len(stack) - size, size) :
               stack' = SubSeq(m, 1, base_ptr + size)
        /\ base_ptr' = prev_base_ptr
        /\ prog_ptr' = prev_prog_ptr
        /\ calls' = SubSeq(calls, 1, Len(calls) - 1)
        /\ writes' = Surviving(Clobber(writes, "stack", base_ptr, size), stack')
        /\ last' = [NoOp EXCEPT !.kind = "return", !.size = size,
                                !.bytes = top_bytes(stack, size),
                                !.pre_size = Len(stack),
                                !.call = IF calls = <<>> THEN NoCall ELSE calls[Len(calls)],
                                !.undefined = Overlap(base_ptr, size, Len(stack) - size, size)]
        /\ UNCHANGED <<heap, bytes_allocated, free_blocks, status, output, live>>

\* run_program_end with >= for >: the leak message is always printed
run_program_end_always_reports ==
    /\ status = "running"
    /\ ~(prog_ptr < ProgSize)
    /\ output' = Append(output, [msg |-> "Heap Size: {}, fix your memory leak!",
                                 n |-> bytes_allocated])
    /\ status' = "exited"
    /\ last' = [NoOp EXCEPT !.kind = "end", !.pre_alloc = bytes_allocated,
                            !.pre_heap = heap]
    /\ UNCHANGED <<stack, heap, bytes_allocated, free_blocks, base_ptr, prog_ptr,
                   calls, live, writes, steps>>
    /\ UNCHANGED <<run_vars, builtin_vars, exit_code, main_vars, lex_vars, parse_vars>>

\* run_program once the loop has ended
run_program_end ==
    /\ status = "running"
    /\ ~(prog_ptr < ProgSize)
    /\ output' = IF bytes_allocated > 0
                 THEN Append(output, [msg |-> "Heap Size: {}, fix your memory leak!",
                                      n |-> bytes_allocated])
                 ELSE output
    /\ status' = "exited"
    /\ last' = [NoOp EXCEPT !.kind = "end", !.pre_alloc = bytes_allocated,
                            !.pre_heap = heap]
    /\ UNCHANGED <<stack, heap, bytes_allocated, free_blocks, base_ptr, prog_ptr,
                   calls, live, writes, steps>>
    /\ UNCHANGED <<run_vars, builtin_vars, exit_code, main_vars, lex_vars, parse_vars>>

----------------------------------------------------------------------------
(* The run loop, over the programs the compiler emits *)

\* while (ctx.prog_ptr < program.size())
Dispatching == status = "running" /\ prog_ptr < ProgSize

\* the op finds n bytes of operands above the slots function_call filled
Holds(n) == Len(stack) - FrameFloor >= n

\* a save writes a variable: bytes of a live allocation, or stack bytes that are
\* no frame's saved base_ptr and prog_ptr
SaveTarget(size) ==
    LET ptr == pop_value(stack)
        at  == region_offset(ptr)
    IN  IF get_top_bit(ptr)
        THEN \E a \in live : a.h + WordSize <= at /\ at + size <= a.h + a.size
        ELSE ~InHeader(at, size)

\* delete is given a pointer new returned and not yet deleted, or no heap pointer
DeleteTarget ==
    LET ptr == pop_value(stack)
    IN  get_top_bit(ptr) => \E a \in live : a.ptr = ptr

Step(op) ==
    /\ Dispatching
    /\ op
    /\ Len(stack') <= MaxStack
    /\ Len(heap') <= MaxHeap
    /\ steps < ProgSize
    /\ steps' = steps + 1
    /\ UNCHANGED <<run_vars, builtin_vars, exit_code, main_vars, lex_vars, parse_vars>>

load_bytes       == \E b \in LoadBytesOperands : Step(op_load_bytes(b))
push_global_addr == \E p \in GlobalPositions : Step(op_push_global_addr(p))
push_local_addr  == \E k \in LocalOffsets : Step(op_push_local_addr(k))
load             == \E n \in LoadSizes : Holds(WordSize) /\ Step(op_load(n))
save             == \E n \in SaveSizes :
                        Holds(WordSize + n) /\ SaveTarget(n) /\ Step(op_save(n))
pop              == \E n \in PopSizes : Holds(n) /\ Step(op_pop(n))
allocate         == \E s \in TypeSizes :
                        /\ Holds(WordSize)
                        /\ from_bytes(pop_value(stack)) * s + WordSize <= MaxHeap
                        /\ Step(op_allocate(s))
deallocate       == Holds(WordSize) /\ DeleteTarget /\ Step(op_deallocate)
function_call    == \E t \in CallTargets, a \in ArgsSizes :
                        Holds(a) /\ Len(calls) < MaxDepth /\ Step(op_function_call(t, a))
return           == \E n \in ReturnSizes :
                        calls # <<>> /\ Holds(n) /\ Step(op_return(n))

Next ==
    \/ load_bytes
    \/ push_global_addr
    \/ push_local_addr
    \/ load
    \/ save
    \/ pop
    \/ allocate
    \/ deallocate
    \/ function_call
    \/ return
    \/ run_program_end

Spec == Init /\ [][Next]_vars

----------------------------------------------------------------------------
(* The built-in functions (src/src/functions.cpp) *)

\* longest argument-type vector of a lookup
MaxArgs == 2

\* sizeof of the C++ types the built-ins pop
sizeof(T) ==
    CASE T = "std::uint64_t" -> 8
      [] T = "std::int64_t"  -> 8
      [] T = "std::int32_t"  -> 4
      [] T = "double"        -> 8
      [] T = "char"          -> 1
      [] T = "bool"          -> 1
      [] T = "std::byte"     -> 1

\* type_store::size_of of the fundamental types
size_of(t) ==
    CASE t = "u64"  -> 8
      [] t = "i64"  -> 8
      [] t = "i32"  -> 4
      [] t = "f64"  -> 8
      [] t = "char" -> 1
      [] t = "bool" -> 1
      [] t = "null" -> 1

\* the biased exponent of a double given as its eight bytes
exponent(w) == (w[8] % 128) * 16 + (w[7] \div 16)

\* the double is +0.0 or 4^k: its square root has an exact, easily computed form
exact_sqrt(w) ==
    /\ \A i \in 1..6 : w[i] = 0
    /\ w[7] % 16 = 0
    /\ w[8] < 128
    /\ exponent(w) = 0 \/ (exponent(w) > 0 /\ exponent(w) < 2047 /\ exponent(w) % 2 = 1)

\* std::sqrt on such a double: the exponent without its bias is halved
std_sqrt(w) ==
    IF exponent(w) = 0 THEN w
    ELSE LET e == 1023 + (exponent(w) - 1023) \div 2
         IN  [i \in 1..8 |-> IF i = 8 THEN e \div 16 ELSE IF i = 7 THEN (e % 16) * 16 ELSE 0]

\* builtin_sqrt: pops a double, pushes its square root
builtin_sqrt(mem) ==
    [mem |-> push_value(drop_bytes(mem, sizeof("double")), std_sqrt(top_bytes(mem, sizeof("double")))),
     printed |-> <<>>]

\* builtin_print that leaves its argument on the stack
builtin_print_keeps_argument(T, mem) ==
    [mem |-> Append(mem, 0),
     printed |-> <<[msg |-> "print", n |-> 0, text |-> top_bytes(mem, sizeof(T))]>>]

\* builtin_print<T>: pops a T, prints it, pushes the null byte
builtin_print(T, mem) ==
    [mem |-> Append(drop_bytes(mem, sizeof(T)), 0),
     printed |-> <<[msg |-> "print", n |-> 0, text |-> top_bytes(mem, sizeof(T))]>>]

\* builtin_println<T>: the same with a newline printed
builtin_println(T, mem) ==
    [mem |-> Append(drop_bytes(mem, sizeof(T)), 0),
     printed |-> <<[msg |-> "println", n |-> 0, text |-> top_bytes(mem, sizeof(T))]>>]

\* construct_builtin_map: the fifteen emplace calls
construct_builtin_map ==
    {[name |-> "sqrt", args |-> <<"f64">>,
      ptr |-> [fn |-> "builtin_sqrt", T |-> "double"], return_type |-> "f64"]}
    \cup
    {[name |-> n, args |-> <<p[1]>>,
      ptr |-> [fn |-> IF n = "print" THEN "builtin_print" ELSE "builtin_println", T |-> p[2]],
      return_type |-> "null"] :
        n \in {"print", "println"},
        p \in {<<"u64", "std::uint64_t">>, <<"char", "char">>, <<"f64", "double">>,
               <<"bool", "bool">>, <<"null", "std::byte">>, <<"i32", "std::int32_t">>,
               <<"i64", "std::int64_t">>}}

\* the native function a table entry points to, applied to the stack
invoke(ptr, mem) ==
    CASE ptr.fn = "builtin_sqrt"    -> builtin_sqrt(mem)
      [] ptr.fn = "builtin_print"   -> builtin_print(ptr.T, mem)
      [] ptr.fn = "builtin_println" -> builtin_println(ptr.T, mem)

\* the entries of the table under a key
entries(name, args) == {e \in builtins : e.name = name /\ e.args = args}

\* is_builtin that looks at the name only
is_builtin_by_name(name, args) ==
    /\ exit_code = Alive
    /\ lookup' = [fn |-> "is_builtin", name |-> name, args |-> args,
                  found |-> \E e \in builtins : e.name = name, entry |-> <<>>]
    /\ UNCHANGED <<builtins, exit_code>>

\* is_builtin: builtins.contains({name, args})
is_builtin(name, args) ==
    /\ exit_code = Alive
    /\ lookup' = [fn |-> "is_builtin", name |-> name, args |-> args,
                  found |-> entries(name, args) # {}, entry |-> <<>>]
    /\ UNCHANGED <<builtins, exit_code>>

\* fetch_builtin: the entry, or a message and std::exit(1)
fetch_builtin(name, args) ==
    /\ exit_code = Alive
    /\ IF entries(name, args) = {}
       THEN /\ lookup' = [fn |-> "fetch_builtin", name |-> name, args |-> args,
                          found |-> FALSE, entry |-> <<>>]
            /\ exit_code' = 1
       ELSE /\ \E e \in entries(name, args) :
                  lookup' = [fn |-> "fetch_builtin", name |-> name, args |-> args,
                             found |-> TRUE, entry |-> <<e>>]
            /\ exit_code' = exit_code
    /\ UNCHANGED builtins

\* the names and types the checker and the compiler look up
LookupNames == {"sqrt", "print", "println", "len"}
LookupTypes == {"i32", "i64", "u64", "f64", "char", "bool", "null", "str"}
LookupArgs  == UNION {[1..n -> LookupTypes] : n \in 0..MaxArgs}

InitBuiltins ==
    /\ stack = <<>> /\ heap = <<>> /\ bytes_allocated = 0 /\ free_blocks = {}
    /\ base_ptr = 0 /\ prog_ptr = 0 /\ status = "running" /\ output = <<>>
    /\ calls = <<>> /\ live = {} /\ writes = {} /\ last = NoOp /\ steps = 0
    /\ debug = FALSE /\ trace = <<>>
    /\ builtins = construct_builtin_map
    /\ lookup = NoLookup
    /\ exit_code = Alive
    /\ argc = 3 /\ mode = "run" /\ invoked = <<>>
    /\ source = <<>> /\ scanner = NoScanner /\ tokens = <<>> /\ lexing = "ready"
    /\ NoParsing

NextBuiltins ==
    \/ \E n \in LookupNames, a \in LookupArgs :
           is_builtin(n, a) /\ UNCHANGED <<vm_vars, run_vars, main_vars, lex_vars, parse_vars>>
    \/ \E n \in LookupNames, a \in LookupArgs :
           fetch_builtin(n, a) /\ UNCHANGED <<vm_vars, run_vars, main_vars, lex_vars, parse_vars>>

SpecBuiltins == InitBuiltins /\ [][NextBuiltins]_vars

----------------------------------------------------------------------------
(* The remaining ops of apply_op, and the two loops that run a program *)

\* ops dispatched in a run of SpecOps
OpsSteps == 4

\* the double 4.0
Float4 == <<0, 0, 0, 0, 0, 0, 16, 64>>

OpsLoadBytes  == {to_bytes(1), <<1>>, <<0>>, Slots16}
OpsLoadSizes  == {8}
OpsReturnSizes == {8}
JumpOffsets   == {-1, 5}
FunctionJumps == {3}
DebugMessages == {"here"}
\* the built-ins the programs of SpecOps call
CalledBuiltins == {e \in construct_builtin_map : e.args = <<"bool">>}
\* the arguments pushed for the built-ins in SpecCall
CallArguments == {<<1>>, <<65>>, <<7, 0, 0, 0>>, to_bytes(258), Float4}

\* jump_target without the offset: the next op
jump_target_next(jump) == prog_ptr + 1

\* ctx.prog_ptr += op.jump
jump_target(jump) == prog_ptr + jump

op_jump(jump) ==
    /\ prog_ptr' = jump_target(jump)
    /\ last' = [NoOp EXCEPT !.kind = "jump", !.arg = jump, !.pre_size = Len(stack)]
    /\ UNCHANGED <<stack, heap, bytes_allocated, free_blocks, base_ptr, status, output,
                   calls, live, writes>>

\* pop_value<bool>: the top byte
pop_bool(mem) == mem[Len(mem)] # 0

op_jump_if_false(jump) ==
    /\ stack' = drop_bytes(stack, 1)
    /\ prog_ptr' = IF pop_bool(stack) THEN prog_ptr + 1 ELSE jump_target(jump)
    /\ writes' = Surviving(writes, stack')
    /\ last' = [NoOp EXCEPT !.kind = "jump_if_false", !.arg = jump,
                            !.bytes = top_bytes(stack, 1), !.pre_size = Len(stack)]
    /\ UNCHANGED <<heap, bytes_allocated, free_blocks, base_ptr, status, output,
                   calls, live>>

op_function(jump) ==
    /\ prog_ptr' = jump
    /\ last' = [NoOp EXCEPT !.kind = "function", !.arg = jump, !.pre_size = Len(stack)]
    /\ UNCHANGED <<stack, heap, bytes_allocated, free_blocks, base_ptr, status, output,
                   calls, live, writes>>

\* the sum of two little-endian integers of Len(a) bytes, modulo 256^Len(a)
RECURSIVE add_bytes(_, _, _, _)
add_bytes(a, b, i, carry) ==
    IF i > Len(a) THEN <<>>
    ELSE <<(a[i] + b[i] + carry) % 256>>
         \o add_bytes(a, b, i + 1, (a[i] + b[i] + carry) \div 256)

\* a < b for two little-endian unsigned integers, from byte i downwards
RECURSIVE less_bytes(_, _, _)
less_bytes(a, b, i) ==
    IF i = 0 THEN FALSE
    ELSE IF a[i] # b[i] THEN a[i] < b[i]
    ELSE less_bytes(a, b, i - 1)

\* the difference of two little-endian integers of Len(a) bytes, modulo 256^Len(a)
RECURSIVE sub_bytes(_, _, _, _)
sub_bytes(a, b, i, borrow) ==
    IF i > Len(a) THEN <<>>
    ELSE <<(a[i] - b[i] - borrow + 256) % 256>>
         \o sub_bytes(a, b, i + 1, IF a[i] - b[i] - borrow < 0 THEN 1 ELSE 0)

\* std::plus<std::uint64_t>
plus_u64(lhs, rhs) == add_bytes(lhs, rhs, 1, 0)
\* std::minus<std::uint64_t>
minus_u64(lhs, rhs) == sub_bytes(lhs, rhs, 1, 0)
\* std::divides<std::uint64_t>, for operands below 2^24 and a divisor that is not 0
divides_u64(lhs, rhs) == to_bytes(from_bytes(lhs) \div from_bytes(rhs))
\* std::less_equal, std::greater and std::greater_equal of std::uint64_t
less_equal_u64(lhs, rhs)    == IF less_bytes(rhs, lhs, Len(lhs)) THEN <<0>> ELSE <<1>>
greater_u64(lhs, rhs)       == IF less_bytes(rhs, lhs, Len(lhs)) THEN <<1>> ELSE <<0>>
greater_equal_u64(lhs, rhs) == IF less_bytes(lhs, rhs, Len(lhs)) THEN <<0>> ELSE <<1>>
\* std::less<std::uint64_t>, the bool as one byte
less_u64(lhs, rhs) == IF less_bytes(lhs, rhs, Len(lhs)) THEN <<1>> ELSE <<0>>
\* std::logical_and<bool>
logical_and(lhs, rhs) == IF lhs[1] # 0 /\ rhs[1] # 0 THEN <<1>> ELSE <<0>>

\* const auto op = Op<Type>{}; op(lhs, rhs)
call_op(Op, lhs, rhs) ==
    CASE Op = "std::plus" -> plus_u64(lhs, rhs)
      [] Op = "std::less" -> less_u64(lhs, rhs)
      [] Op = "std::logical_and" -> logical_and(lhs, rhs)
      [] Op = "std::minus" -> minus_u64(lhs, rhs)
      [] Op = "std::divides" -> divides_u64(lhs, rhs)
      [] Op = "std::less_equal" -> less_equal_u64(lhs, rhs)
      [] Op = "std::greater" -> greater_u64(lhs, rhs)
      [] Op = "std::greater_equal" -> greater_equal_u64(lhs, rhs)

\* a binary_op with its operands exchanged
binary_op_swapped(size, Op) ==
    LET lhs == top_bytes(stack, size)
        rhs == top_bytes(drop_bytes(stack, size), size)
    IN  /\ stack' = drop_bytes(stack, 2 * size) \o call_op(Op, lhs, rhs)
        /\ prog_ptr' = prog_ptr + 1
        /\ writes' = Surviving(writes, drop_bytes(stack, 2 * size))
        /\ last' = [NoOp EXCEPT !.kind = "binary_op", !.size = size,
                                !.pre_size = Len(stack)]
        /\ UNCHANGED <<heap, bytes_allocated, free_blocks, base_ptr, status, output,
                       calls, live>>

\* binary_op<Type, Op>: pops rhs then lhs, pushes op(lhs, rhs)
binary_op(size, Op) ==
    LET rhs == top_bytes(stack, size)
        lhs == top_bytes(drop_bytes(stack, size), size)
    IN  /\ stack' = drop_bytes(stack, 2 * size) \o call_op(Op, lhs, rhs)
        /\ prog_ptr' = prog_ptr + 1
        /\ writes' = Surviving(writes, drop_bytes(stack, 2 * size))
        /\ last' = [NoOp EXCEPT !.kind = "binary_op", !.size = size,
                                !.pre_size = Len(stack)]
        /\ UNCHANGED <<heap, bytes_allocated, free_blocks, base_ptr, status, output,
                       calls, live>>

op_u64_add  == binary_op(sizeof("std::uint64_t"), "std::plus")
op_u64_lt   == binary_op(sizeof("std::uint64_t"), "std::less")
op_bool_and == binary_op(sizeof("bool"), "std::logical_and")
op_u64_sub  == binary_op(sizeof("std::uint64_t"), "std::minus")
op_u64_le   == binary_op(sizeof("std::uint64_t"), "std::less_equal")
op_u64_gt   == binary_op(sizeof("std::uint64_t"), "std::greater")
op_u64_ge   == binary_op(sizeof("std::uint64_t"), "std::greater_equal")

\* op_u64_div: the division of an integer by zero is undefined; the process is
\* killed by the trap of the division, or goes on with some quotient
op_u64_div ==
    LET size == sizeof("std::uint64_t") IN
    IF from_bytes(top_bytes(stack, size)) # 0
    THEN binary_op(size, "std::divides")
    ELSE /\ last' = [NoOp EXCEPT !.kind = "binary_op", !.size = size,
                                 !.pre_size = Len(stack), !.undefined = TRUE]
         /\ \/ /\ status' = "crashed"
               /\ stack' = drop_bytes(stack, 2 * size)
               /\ prog_ptr' = prog_ptr
            \/ /\ \E g \in UndefinedBytes :
                      stack' = drop_bytes(stack, 2 * size) \o [i \in 1..size |-> g]
               /\ prog_ptr' = prog_ptr + 1
               /\ status' = status
         /\ writes' = Surviving(writes, drop_bytes(stack, 2 * size))
         /\ UNCHANGED <<heap, bytes_allocated, free_blocks, base_ptr, output, calls, live>>

op_builtin_call(ptr) ==
    LET r == invoke(ptr, stack) IN
    /\ stack' = r.mem
    /\ output' = output \o r.printed
    /\ prog_ptr' = prog_ptr + 1
    /\ writes' = Surviving(writes, drop_bytes(stack, sizeof(ptr.T)))
    /\ last' = [NoOp EXCEPT !.kind = "builtin_call", !.arg = ptr, !.bytes = stack,
                            !.pre_size = Len(stack)]
    /\ UNCHANGED <<heap, bytes_allocated, free_blocks, base_ptr, status, calls, live>>

op_debug(message) ==
    /\ output' = Append(output, [msg |-> message, n |-> 0])
    /\ prog_ptr' = prog_ptr + 1
    /\ last' = [NoOp EXCEPT !.kind = "debug", !.pre_size = Len(stack)]
    /\ UNCHANGED <<stack, heap, bytes_allocated, free_blocks, base_ptr, status,
                   calls, live, writes>>

\* a jump of a compiled program lands inside the program or at its end
JumpInside(jump) == 0 <= prog_ptr + jump /\ prog_ptr + jump <= ProgSize

\* the byte on top is a bool
HoldsBool == Holds(1) /\ stack[Len(stack)] \in {0, 1}

\* the argument of the built-in is on top, and sqrt is given a double the model
\* takes the root of
HoldsArgument(e) ==
    /\ Holds(size_of(e.args[1]))
    /\ e.name = "sqrt" => exact_sqrt(top_bytes(stack, size_of(e.args[1])))

\* apply_op on the op at prog_ptr, whichever op it is
apply_op ==
    \/ \E b \in OpsLoadBytes : op_load_bytes(b)
    \/ \E p \in GlobalPositions : op_push_global_addr(p)
    \/ \E k \in LocalOffsets : op_push_local_addr(k)
    \/ \E n \in OpsLoadSizes : Holds(WordSize) /\ op_load(n)
    \/ \E n \in SaveSizes : Holds(WordSize + n) /\ SaveTarget(n) /\ op_save(n)
    \/ \E n \in PopSizes : Holds(n) /\ op_pop(n)
    \/ \E t \in TypeSizes :
           /\ Holds(WordSize)
           /\ from_bytes(pop_value(stack)) * t + WordSize <= MaxHeap
           /\ op_allocate(t)
    \/ Holds(WordSize) /\ DeleteTarget /\ op_deallocate
    \/ \E d \in JumpOffsets : JumpInside(d) /\ op_jump(d)
    \/ \E d \in JumpOffsets : HoldsBool /\ JumpInside(d) /\ op_jump_if_false(d)
    \/ \E j \in FunctionJumps : op_function(j)
    \/ \E t \in CallTargets, a \in ArgsSizes :
           Holds(a) /\ Len(calls) < MaxDepth /\ op_function_call(t, a)
    \/ \E n \in OpsReturnSizes : calls # <<>> /\ Holds(n) /\ op_return(n)
    \/ Holds(2 * WordSize) /\ (op_u64_add \/ op_u64_lt)
    \/ Holds(2) /\ op_bool_and
    \/ \E e \in CalledBuiltins : HoldsArgument(e) /\ op_builtin_call(e.ptr)
    \/ \E m \in DebugMessages : op_debug(m)

\* run_program: one turn of the loop
run_program_step ==
    /\ Dispatching
    /\ apply_op

\* what run_program_debug prints around a dispatch
trace_lines ==
    <<[line |-> "op", prog_ptr |-> prog_ptr],
      [line |-> "Stack", stack |-> stack'],
      [line |-> "Heap", allocated |-> bytes_allocated']>>

\* run_program_debug: one turn of the loop; printed is the trace afterwards
run_program_debug_step(printed) ==
    /\ Dispatching
    /\ apply_op
    /\ printed = trace \o trace_lines

\* run_program_debug_end without the leak message
run_program_debug_end_silent ==
    /\ status = "running"
    /\ ~(prog_ptr < ProgSize)
    /\ output' = output
    /\ status' = "exited"
    /\ last' = [NoOp EXCEPT !.kind = "end", !.pre_alloc = bytes_allocated,
                            !.pre_heap = heap]
    /\ UNCHANGED <<stack, heap, bytes_allocated, free_blocks, base_ptr, prog_ptr,
                   calls, live, writes, steps>>
    /\ UNCHANGED <<run_vars, builtin_vars, exit_code, main_vars, lex_vars, parse_vars>>

\* run_program_debug once the loop has ended
run_program_debug_end ==
    /\ status = "running"
    /\ ~(prog_ptr < ProgSize)
    /\ output' = IF bytes_allocated > 0
                 THEN Append(output, [msg |-> "Heap Size: {}, fix your memory leak!",
                                      n |-> bytes_allocated])
                 ELSE output
    /\ status' = "exited"
    /\ last' = [NoOp EXCEPT !.kind = "end", !.pre_alloc = bytes_allocated,
                            !.pre_heap = heap]
    /\ UNCHANGED <<stack, heap, bytes_allocated, free_blocks, base_ptr, prog_ptr,
                   calls, live, writes, steps>>
    /\ UNCHANGED <<run_vars, builtin_vars, exit_code, main_vars, lex_vars, parse_vars>>

\* a turn the model follows: inside its bounds
Turn ==
    /\ Len(stack') <= MaxStack
    /\ Len(heap') <= MaxHeap
    /\ steps < OpsSteps
    /\ steps' = steps + 1
    /\ UNCHANGED <<debug, builtin_vars, exit_code, main_vars, lex_vars, parse_vars>>

InitOps ==
    /\ stack = <<>> /\ heap = <<>> /\ bytes_allocated = 0 /\ free_blocks = {}
    /\ base_ptr = 0 /\ prog_ptr = 0 /\ status = "running" /\ output = <<>>
    /\ calls = <<>> /\ live = {} /\ writes = {} /\ last = NoOp /\ steps = 0
    /\ debug \in BOOLEAN
    /\ trace = <<>>
    /\ builtins = construct_builtin_map
    /\ lookup = NoLookup
    /\ exit_code = Alive
    /\ argc = 3 /\ mode \in {"run", "debug"} /\ (mode = "debug" <=> debug) /\ invoked = <<>>
    /\ source = <<>> /\ scanner = NoScanner /\ tokens = <<>> /\ lexing = "ready"
    /\ NoParsing

NextOps ==
    \/ ~debug /\ run_program_step /\ UNCHANGED trace /\ Turn
    \/ ~debug /\ run_program_end
    \/ debug /\ run_program_debug_step(trace') /\ Turn
    \/ debug /\ run_program_debug_end

SpecOps == InitOps /\ [][NextOps]_vars

\* ops dispatched in a run of SpecUnderflow
UnderflowSteps == 3

\* op_pop whatever the stack holds: stack.size() - op.size is computed in size_t,
\* and when it wraps, resize is asked for more than max_size() and throws
\* std::length_error, which nothing catches
op_pop_unchecked(size) ==
    IF size <= Len(stack) THEN op_pop(size)
    ELSE /\ status' = "crashed"
         /\ last' = [NoOp EXCEPT !.kind = "pop", !.size = size, !.pre_size = Len(stack),
                                 !.undefined = TRUE]
         /\ UNCHANGED <<stack, heap, bytes_allocated, free_blocks, base_ptr, prog_ptr,
                        output, calls, live, writes>>

\* op_function_call whatever the stack holds: when stack.size() - args_size wraps,
\* the two write_value calls write outside the vector, which is undefined: the
\* process is brought down, or goes on with the wrapped base_ptr
op_function_call_unchecked(target, args_size) ==
    IF args_size <= Len(stack) THEN op_function_call(target, args_size)
    ELSE /\ last' = [NoOp EXCEPT !.kind = "function_call", !.size = args_size,
                                 !.arg = target, !.pre_size = Len(stack),
                                 !.undefined = TRUE]
         /\ \/ /\ status' = "crashed"
               /\ UNCHANGED <<base_ptr, prog_ptr>>
            \/ /\ status' = status
               /\ base_ptr' = Huge
               /\ prog_ptr' = target
         /\ UNCHANGED <<stack, heap, bytes_allocated, free_blocks, output, calls, live,
                        writes>>

\* what run_program_debug has printed when the op brought the process down
crash_lines == <<[line |-> "op", prog_ptr |-> prog_ptr]>>

\* run_program_debug: one turn of the loop, the op finding any stack
UnderflowTurn ==
    /\ Dispatching
    /\ steps < UnderflowSteps
    /\ steps' = steps + 1
    /\ trace' = trace \o (IF status' = "crashed" THEN crash_lines ELSE trace_lines)
    /\ UNCHANGED <<debug, builtin_vars, exit_code, main_vars, lex_vars, parse_vars>>

InitUnderflow == InitOps /\ debug

NextUnderflow ==
    \/ \E b \in OpsLoadBytes : op_load_bytes(b) /\ UnderflowTurn
    \/ \E n \in PopSizes : op_pop_unchecked(n) /\ UnderflowTurn
    \/ \E t \in CallTargets, a \in ArgsSizes :
           /\ Len(calls) < MaxDepth
           /\ op_function_call_unchecked(t, a)
           /\ UnderflowTurn

SpecUnderflow == InitUnderflow /\ [][NextUnderflow]_vars

\* binary ops dispatched in a run of SpecArith
ArithSteps == 1

\* the integers the programs of SpecArith push as operands: below 2^24
ArithValues == {0, 1, 2, 258, 65535}
\* the bytes beneath the operands
ArithBelow == {<<>>, <<7>>}

\* the stack after a program pushed what is beneath, then two operands
ArithStacks ==
    {b \o to_bytes(l) \o to_bytes(r) : b \in ArithBelow, l \in ArithValues, r \in ArithValues}
    \cup {b \o <<l, r>> : b \in ArithBelow, l \in {0, 1}, r \in {0, 1}}

ArithTurn ==
    /\ Dispatching
    /\ steps < ArithSteps
    /\ steps' = steps + 1
    /\ UNCHANGED <<debug, trace, builtin_vars, exit_code, main_vars, lex_vars, parse_vars>>

\* the operands of a 64-bit op of SpecArith are integers below 2^24
SmallOperands ==
    /\ Holds(2 * WordSize)
    /\ from_bytes(top_bytes(stack, WordSize)) < Huge
    /\ from_bytes(top_bytes(drop_bytes(stack, WordSize), WordSize)) < Huge

InitArith ==
    /\ stack \in ArithStacks
    /\ heap = <<>> /\ bytes_allocated = 0 /\ free_blocks = {}
    /\ base_ptr = 0 /\ prog_ptr = 0 /\ status = "running" /\ output = <<>>
    /\ calls = <<>> /\ live = {} /\ writes = {} /\ last = NoOp /\ steps = 0
    /\ debug = FALSE
    /\ trace = <<>>
    /\ builtins = construct_builtin_map
    /\ lookup = NoLookup
    /\ exit_code = Alive
    /\ argc = 3 /\ mode = "run" /\ invoked = <<>>
    /\ source = <<>> /\ scanner = NoScanner /\ tokens = <<>> /\ lexing = "ready"
    /\ NoParsing

NextArith ==
    \/ SmallOperands /\ op_u64_add /\ ArithTurn
    \/ SmallOperands /\ op_u64_sub /\ ArithTurn
    \/ SmallOperands /\ op_u64_div /\ ArithTurn
    \/ SmallOperands /\ op_u64_lt /\ ArithTurn
    \/ SmallOperands /\ op_u64_le /\ ArithTurn
    \/ SmallOperands /\ op_u64_gt /\ ArithTurn
    \/ SmallOperands /\ op_u64_ge /\ ArithTurn
    \/ Holds(2) /\ op_bool_and /\ ArithTurn

SpecArith == InitArith /\ [][NextArith]_vars

\* ops dispatched in a run of SpecCall
CallSteps == 3

\* programs that push arguments and call built-ins, any entry of the table
\* a turn of the calls the model follows: inside its bounds
CallTurn ==
    /\ Dispatching
    /\ Len(stack') <= MaxStack
    /\ steps < CallSteps
    /\ steps' = steps + 1
    /\ UNCHANGED <<run_vars, builtin_vars, exit_code, main_vars, lex_vars, parse_vars>>

InitCall == InitOps /\ ~debug

NextCall ==
    \/ \E b \in CallArguments : op_load_bytes(b) /\ CallTurn
    \/ \E e \in builtins : HoldsArgument(e) /\ op_builtin_call(e.ptr) /\ CallTurn

SpecCall == InitCall /\ [][NextCall]_vars

----------------------------------------------------------------------------
(* The driver (src/src/anzu.m.cpp) *)

\* largest argc given to main
MaxArgc == 5

\* argv[2]: the six modes and two that are none of them
Modes == {"lex", "parse", "check", "com", "run", "debug", "exec", ""}

\* how a stage ends: it returns, or it reports an error and calls std::exit(1)
Outcomes == {"returns", "exits"}

\* usage_error for argc = 3 only
usage_error_three_only == argc # 3

\* if (argc != 3 && argc != 4)
usage_error == argc # 3 /\ argc # 4

\* returns_after that never holds: main goes on to the next stage
returns_after_never(m) == FALSE

\* if (mode == m) { ...; return 0; } after a stage
returns_after(m) == mode = m

\* main up to its first return: the argument check
main_usage ==
    /\ exit_code = Alive
    /\ invoked = <<>>
    /\ usage_error
    /\ exit_code' = 1
    /\ UNCHANGED <<argc, mode, invoked>>
    /\ UNCHANGED <<vm_vars, run_vars, builtin_vars, lex_vars, parse_vars>>

\* a stage of main: the call, then the return 0 of the mode that stops here
stage(name, before, stop_mode) ==
    /\ exit_code = Alive
    /\ ~usage_error
    /\ Len(invoked) = before
    /\ \E o \in Outcomes :
           /\ invoked' = Append(invoked, [stage |-> name, outcome |-> o])
           /\ exit_code' = IF o = "exits" THEN 1
                           ELSE IF returns_after(stop_mode) THEN 0
                           ELSE Alive
    /\ UNCHANGED <<argc, mode>>
    /\ UNCHANGED <<vm_vars, run_vars, builtin_vars, lex_vars, parse_vars>>

main_lex       == stage("lex", 0, "lex")
main_parse     == stage("parse", 1, "parse")
main_typecheck == stage("typecheck_ast", 2, "check")
main_compile   == stage("compile", 3, "com")

\* the end of main: run_program, run_program_debug or the unknown mode
main_run ==
    /\ exit_code = Alive
    /\ ~usage_error
    /\ Len(invoked) = 4
    /\ IF mode = "run" \/ mode = "debug"
       THEN \E o \in Outcomes :
                /\ invoked' = Append(invoked,
                       [stage |-> IF mode = "run" THEN "run_program" ELSE "run_program_debug",
                        outcome |-> o])
                /\ exit_code' = IF o = "exits" THEN 1 ELSE 0
       ELSE /\ exit_code' = 1
            /\ invoked' = invoked
    /\ UNCHANGED <<argc, mode>>
    /\ UNCHANGED <<vm_vars, run_vars, builtin_vars, lex_vars, parse_vars>>

InitMain ==
    /\ stack = <<>> /\ heap = <<>> /\ bytes_allocated = 0 /\ free_blocks = {}
    /\ base_ptr = 0 /\ prog_ptr = 0 /\ status = "running" /\ output = <<>>
    /\ calls = <<>> /\ live = {} /\ writes = {} /\ last = NoOp /\ steps = 0
    /\ debug = FALSE /\ trace = <<>>
    /\ builtins = construct_builtin_map
    /\ lookup = NoLookup
    /\ exit_code = Alive
    /\ argc \in 1..MaxArgc
    /\ mode \in Modes
    /\ invoked = <<>>
    /\ source = <<>> /\ scanner = NoScanner /\ tokens = <<>> /\ lexing = "ready"
    /\ NoParsing

NextMain ==
    \/ main_usage
    \/ main_lex
    \/ main_parse
    \/ main_typecheck
    \/ main_compile
    \/ main_run

SpecMain == InitMain /\ [][NextMain]_vars

----------------------------------------------------------------------------
(* The scanner (src/src/lexer.cpp) *)

\* the largest number of lexemes a source is put together from
MaxPieces == 3

\* what *ctx.end reads: the terminator of the std::string that holds the source
NUL == "NUL"

\* std::isalpha and std::isdigit in the C locale
isalpha(c) ==
    c \in {"a", "b", "c", "d", "e", "f", "g", "h", "i", "j", "k", "l", "m", "n", "o", "p", "q", "r", "s", "t", "u", "v", "w", "x", "y", "z",
           "A", "B", "C", "D", "E", "F", "G", "H", "I", "J", "K", "L", "M", "N", "O", "P", "Q", "R", "S", "T", "U", "V", "W", "X", "Y", "Z"}

isdigit(c) == c \in {"0", "1", "2", "3", "4", "5", "6", "7", "8", "9"}

valid(ctx) == ctx.curr # Len(source)

peek(ctx) == IF ctx.curr < Len(source) THEN source[ctx.curr + 1] ELSE NUL

\* peek_next that looks at the current character
peek_next_is_peek(ctx) == peek(ctx)

peek_next(ctx) ==
    IF ~valid(ctx) THEN NUL
    ELSE IF ctx.curr + 1 < Len(source) THEN source[ctx.curr + 2] ELSE NUL

\* the scanner after it has dereferenced the iterator at offset at
looked(ctx, at) == [ctx EXCEPT !.peeked = IF at > @ THEN at ELSE @]

advance(ctx) == [looked(ctx, ctx.curr) EXCEPT !.col = @ + 1, !.curr = @ + 1]

\* the loop of match: a mismatch rolls curr back, and leaves col where it is
RECURSIVE match_loop(_, _, _, _)
match_loop(ctx, original_curr, expected, i) ==
    IF i > Len(expected) THEN [ctx |-> ctx, ok |-> TRUE]
    ELSE IF ~valid(ctx)
         THEN [ctx |-> [ctx EXCEPT !.curr = original_curr], ok |-> FALSE]
    ELSE IF peek(ctx) # expected[i]
         THEN [ctx |-> [looked(ctx, ctx.curr) EXCEPT !.curr = original_curr], ok |-> FALSE]
         ELSE match_loop(advance(ctx), original_curr, expected, i + 1)

\* match that never finds the expected text
match_never(ctx, expected) == [ctx |-> ctx, ok |-> FALSE]

match(ctx, expected) == match_loop(ctx, ctx.curr, expected, 1)

\* the comparisons of identifier_type, in the order of the source
identifier_types ==
    { 
      <<<<"a", "s", "s", "e", "r", "t">>, "kw_assert">>,
      <<<<"b", "o", "o", "l">>, "kw_bool">>,
      <<<<"b", "r", "e", "a", "k">>, "kw_break">>,
      <<<<"c", "h", "a", "r">>, "kw_char">>,
      <<<<"c", "o", "n", "t", "i", "n", "u", "e">>, "kw_continue">>,
      <<<<"d", "e", "f", "a", "u", "l", "t">>, "kw_default">>,
      <<<<"d", "e", "l", "e", "t", "e">>, "kw_delete">>,
      <<<<"e", "l", "s", "e">>, "kw_else">>,
      <<<<"f", "6", "4">>, "kw_f64">>,
      <<<<"f", "a", "l", "s", "e">>, "kw_false">>,
      <<<<"f", "o", "r">>, "kw_for">>,
      <<<<"f", "n">>, "kw_function">>,
      <<<<"i", "3", "2">>, "kw_i32">>,
      <<<<"i", "6", "4">>, "kw_i64">>,
      <<<<"i", "f">>, "kw_if">>,
      <<<<"i", "m", "p", "o", "r", "t">>, "kw_import">>,
      <<<<"i", "n">>, "kw_in">>,
      <<<<"l", "o", "o", "p">>, "kw_loop">>,
      <<<<"n", "e", "w">>, "kw_new">>,
      <<<<"n", "u", "l", "l">>, "kw_null">>,
      <<<<"r", "e", "t", "u", "r", "n">>, "kw_return">>,
      <<<<"s", "i", "z", "e", "o", "f">>, "kw_sizeof">>,
      <<<<"s", "t", "r", "u", "c", "t">>, "kw_struct">>,
      <<<<"t", "r", "u", "e">>, "kw_true">>,
      <<<<"t", "y", "p", "e", "o", "f">>, "kw_typeof">>,
      <<<<"u", "6", "4">>, "kw_u64">>,
      <<<<"w", "h", "i", "l", "e">>, "kw_while">>,
      <<<<"(">>, "left_paren">>,
      <<<<")">>, "right_paren">>,
      <<<<"{">>, "left_brace">>,
      <<<<"}">>, "right_brace">>,
      <<<<";">>, "semicolon">>,
      <<<<",">>, "comma">>,
      <<<<".">>, "dot">>,
      <<<<"-">>, "minus">>,
      <<<<"+">>, "plus">>,
      <<<<"/">>, "slash">>,
      <<<<"*">>, "star">>,
      <<<<"!", "=">>, "bang_equal">>,
      <<<<"!">>, "bang">>,
      <<<<"=", "=">>, "equal_equal">>,
      <<<<"=">>, "equal">>,
      <<<<"<", "=">>, "less_equal">>,
      <<<<"<">>, "less">>,
      <<<<">", "=">>, "greater_equal">>,
      <<<<">">>, "greater">>,
      <<<<"&">>, "ampersand">>,
      <<<<"&", "&">>, "ampersand_ampersand">>,
      <<<<":", "=">>, "colon_equal">>,
      <<<<":">>, "colon">>,
      <<<<"[">>, "left_bracket">>,
      <<<<"]">>, "right_bracket">>,
      <<<<"%">>, "percent">>,
      <<<<"|", "|">>, "bar_bar">>,
      <<<<"|">>, "bar">>,
      <<<<"-", ">">>, "arrow">> }

\* identifier_type that knows no keyword
identifier_type_no_keywords(ctx) == "identifier"

identifier_type(ctx) ==
    LET token == SubSeq(source, ctx.start + 1, ctx.curr)
    IN  IF \E e \in identifier_types : e[1] = token
        THEN (CHOOSE e \in identifier_types : e[1] = token)[2]
        ELSE "identifier"

\* case '#' of skip_whitespace
RECURSIVE skip_comment(_)
skip_comment(ctx) ==
    IF ~valid(ctx) THEN ctx
    ELSE IF peek(ctx) # "\n" THEN skip_comment(advance(ctx))
    ELSE looked(ctx, ctx.curr)

RECURSIVE skip_whitespace(_)
skip_whitespace(ctx) ==
    IF ~valid(ctx) THEN ctx
    ELSE LET c == peek(ctx)
         IN  IF c \in {" ", "\r", "\t"} THEN skip_whitespace(advance(ctx))
             ELSE IF c = "\n"
                  THEN skip_whitespace([advance(ctx) EXCEPT !.line = @ + 1, !.col = 1])
             ELSE IF c = "#" THEN skip_whitespace(skip_comment(ctx))
             ELSE looked(ctx, ctx.curr)

\* a token: text is the slice [offset, offset + Len(text)) of the source
make_token(ctx, type) ==
    LET text == SubSeq(source, ctx.start + 1, ctx.curr)
    IN  [text |-> text, offset |-> ctx.start, line |-> ctx.line,
         col |-> ctx.col - Len(text), type |-> type]

\* what get_token hands back: a token, or lexer_error has ended the process;
\* returned_rewound hands the token back with curr at the start of the token
returned_rewound(ctx, token) ==
    [ctx |-> [ctx EXCEPT !.curr = ctx.start], token |-> token, error |-> FALSE]
returned(ctx, token) == [ctx |-> ctx, token |-> token, error |-> FALSE]
lexer_error(ctx) == [ctx |-> ctx, token |-> make_token(ctx, "none"), error |-> TRUE]

RECURSIVE identifier_loop(_)
identifier_loop(ctx) ==
    IF isalpha(peek(ctx)) \/ isdigit(peek(ctx)) \/ peek(ctx) = "_"
    THEN identifier_loop(advance(ctx))
    ELSE looked(ctx, ctx.curr)

\* make_identifier after the loop
identifier_token(ctx) == returned(ctx, make_token(ctx, identifier_type(ctx)))

make_identifier(ctx0) == identifier_token(identifier_loop(ctx0))

RECURSIVE digits_loop(_)
digits_loop(ctx) ==
    IF isdigit(peek(ctx)) THEN digits_loop(advance(ctx)) ELSE looked(ctx, ctx.curr)

\* make_number: the token of the scanner ctx
number_token(ctx, type) == returned(ctx, make_token(ctx, type))
\* make_number after match("i32"), and then after match("i64")
number_i64(i64) == number_token(i64.ctx, "int64")
number_i32(i32) ==
    IF i32.ok THEN number_token(i32.ctx, "int32")
    ELSE number_i64(match(i32.ctx, <<"i", "6", "4">>))
\* make_number after match("u")
number_u(u) ==
    IF u.ok THEN number_token(u.ctx, "uint64")
    ELSE number_i32(match(u.ctx, <<"i", "3", "2">>))
\* make_number after match("u64")
number_u64(u64) ==
    IF u64.ok THEN number_token(u64.ctx, "uint64")
    ELSE number_u(match(u64.ctx, <<"u">>))
\* make_number after the test for a fractional part; peek_next has been called
\* when peek found the '.', and has read the character after it
number_fraction(ctx) ==
    IF peek(ctx) = "." /\ isdigit(peek_next(ctx))
    THEN number_token(digits_loop(advance(ctx)), "float64")
    ELSE number_u64(match(ctx, <<"u", "6", "4">>))
\* make_number after the first loop over the digits
number_digits(run) ==
    number_fraction(IF peek(run) = "." THEN looked(run, run.curr + 1) ELSE run)

make_number(ctx0) == number_digits(digits_loop(ctx0))

RECURSIVE literal_loop(_, _)
literal_loop(ctx, delimiter) ==
    IF ~valid(ctx) THEN ctx
    ELSE IF peek(ctx) # delimiter
    THEN literal_loop(advance(IF peek(ctx) = "\n"
                              THEN [ctx EXCEPT !.line = @ + 1, !.col = 1]
                              ELSE ctx), delimiter)
    ELSE looked(ctx, ctx.curr)

\* remove_prefix(1) alone: the closing quote stays in the text
remove_prefix_only(tok) ==
    [tok EXCEPT !.text = SubSeq(@, 2, Len(@)), !.offset = @ + 1]

\* tok.text.remove_prefix(1); tok.text.remove_suffix(1)
remove_quotes(tok) ==
    [tok EXCEPT !.text = SubSeq(@, 2, Len(@) - 1), !.offset = @ + 1]

\* make_literal after advance over the closing quote
literal_token(closed, tt) == returned(closed, remove_quotes(make_token(closed, tt)))
\* make_literal after the loop
literal_end(ctx, tt) ==
    IF ~valid(ctx) THEN lexer_error(ctx) ELSE literal_token(advance(ctx), tt)

make_literal(ctx0, delimiter, tt) == literal_end(literal_loop(ctx0, delimiter), tt)

make_string(ctx) == make_literal(ctx, "\"", "string")

\* make_char without the check of the size
make_char_any_size(ctx) == make_literal(ctx, "'", "character")

\* make_char after make_literal
char_size(r) == IF ~r.error /\ Len(r.token.text) # 1 THEN lexer_error(r.ctx) ELSE r

make_char(ctx) == char_size(make_literal(ctx, "'", "character"))

\* the cases of get_token's switch that return at once
single_cases ==
    { <<"(", "left_paren">>, <<")", "right_paren">>, <<"{", "left_brace">>,
      <<"}", "right_brace">>, <<"[", "left_bracket">>, <<"]", "right_bracket">>,
      <<";", "semicolon">>, <<",", "comma">>, <<".", "dot">>, <<"+", "plus">>,
      <<"/", "slash">>, <<"*", "star">>, <<"%", "percent">> }

\* the cases that try a match first: <<c, expected, type if matched, type if not>>
match_cases ==
    { <<"-", ">", "arrow", "minus">>,
      <<"!", "=", "bang_equal", "bang">>,
      <<"=", "=", "equal_equal", "equal">>,
      <<"<", "=", "less_equal", "less">>,
      <<">", "=", "greater_equal", "greater">>,
      <<":", "=", "colon_equal", "colon">>,
      <<"|", "|", "bar_bar", "bar">>,
      <<"&", "&", "ampersand_ampersand", "ampersand">> }

\* a case of the switch that tries a match: the token after the match m
matched_token(e, m) == returned(m.ctx, make_token(m.ctx, IF m.ok THEN e[3] ELSE e[4]))
match_case(e, ctx) == matched_token(e, match(ctx, <<e[2]>>))

\* get_token after c = advance(ctx)
token_of(c, ctx) ==
    IF isalpha(c) THEN make_identifier(ctx)
    ELSE IF isdigit(c) THEN make_number(ctx)
    ELSE IF \E e \in single_cases : e[1] = c
         THEN returned(ctx, make_token(ctx, (CHOOSE e \in single_cases : e[1] = c)[2]))
    ELSE IF \E e \in match_cases : e[1] = c
         THEN match_case(CHOOSE e \in match_cases : e[1] = c, ctx)
    ELSE IF c = "'" THEN make_char(ctx)
    ELSE IF c = "\"" THEN make_string(ctx)
    ELSE lexer_error(ctx)

\* get_token after ctx.start = ctx.curr
token_start(st) == token_of(peek(st), advance(st))

\* get_token after skip_whitespace
token_after(ws) ==
    IF ~valid(ws) THEN returned(ws, make_token(ws, "eof"))
    ELSE token_start([ws EXCEPT !.start = ws.curr])

get_token(ctx0) == token_after(skip_whitespace(ctx0))

\* one round of the loop of lex_print: a token is printed, or eof ends the loop
lex_print_token(r) ==
    /\ scanner' = r.ctx
    /\ IF r.error
       THEN lexing' = "error" /\ exit_code' = 1 /\ tokens' = tokens
       ELSE IF r.token.type = "eof"
       THEN lexing' = "done" /\ exit_code' = exit_code /\ tokens' = tokens
       ELSE lexing' = "ready" /\ exit_code' = exit_code
            /\ tokens' = Append(tokens, r.token)

lex_print_step ==
    /\ lexing = "ready"
    /\ lex_print_token(get_token(scanner))
    /\ UNCHANGED source

\* the lexemes sources are put together from, each a sequence of characters
Pieces ==
    { <<"i", "f">>, <<"i", "6", "4">>, <<"x">>, <<"6">>, <<"_">>,
      <<" ">>, <<"\n">>, <<"#">>, <<"\"">>, <<"'">>,
      <<"!">>, <<"=">>, <<"<">>, <<">">>, <<":">>, <<"-">>, <<"|">>, <<"&">>,
      <<".">>, <<"u">>, <<"@">>, <<"6", "4">>, <<"i", "3", "2">> }

RECURSIVE Concat(_)
Concat(ps) == IF ps = <<>> THEN <<>> ELSE Head(ps) \o Concat(Tail(ps))

Sources == { Concat(ps) : ps \in UNION { [1..n -> Pieces] : n \in 0..MaxPieces } }

InitLex ==
    /\ stack = <<>> /\ heap = <<>> /\ bytes_allocated = 0 /\ free_blocks = {}
    /\ base_ptr = 0 /\ prog_ptr = 0 /\ status = "running" /\ output = <<>>
    /\ calls = <<>> /\ live = {} /\ writes = {} /\ last = NoOp /\ steps = 0
    /\ debug = FALSE /\ trace = <<>>
    /\ builtins = construct_builtin_map
    /\ lookup = NoLookup
    /\ exit_code = Alive
    /\ argc = 3 /\ mode = "lex" /\ invoked = <<>>
    /\ source \in Sources
    /\ scanner = NoScanner
    /\ tokens = <<>>
    /\ lexing = "ready"
    /\ NoParsing

NextLex ==
    /\ lex_print_step
    /\ UNCHANGED <<vm_vars, run_vars, builtin_vars, main_vars, parse_vars>>

SpecLex == InitLex /\ [][NextLex]_vars

----------------------------------------------------------------------------
(* The tokenstream *)

\* consume calls made on a tokenstream of SpecStream
MaxAdvances == 4

\* tokenstream::valid and tokenstream::has_next
stream_valid(s) == s.curr.type # "eof"
has_next(s)     == s.next.type # "eof"

\* tokenstream::tokenstream: the scanner, then two get_token calls; error when
\* one of them ended the process
tokenstream_next(first, second) ==
    [stream |-> [ctx |-> second.ctx, curr |-> first.token, next |-> second.token],
     ret |-> FALSE, token |-> NoToken, error |-> second.error, advanced |-> FALSE]
tokenstream_curr(first) ==
    IF first.error
    THEN [stream |-> NoStream, ret |-> FALSE, token |-> NoToken, error |-> TRUE,
          advanced |-> FALSE]
    ELSE tokenstream_next(first, get_token(first.ctx))
tokenstream == tokenstream_curr(get_token(NoScanner))

\* consume that forgets d_next: the token after the next becomes curr
consume_skipped(s, r) ==
    [stream |-> [ctx |-> r.ctx, curr |-> r.token, next |-> r.token],
     ret |-> FALSE, token |-> s.curr, error |-> r.error, advanced |-> TRUE]
consume_skips(s) == consume_skipped(s, get_token(s.ctx))

\* tokenstream::consume: returns d_curr, d_next becomes d_curr and the scanner
\* gives the new d_next
consumed(s, r) ==
    [stream |-> [ctx |-> r.ctx, curr |-> s.next, next |-> r.token],
     ret |-> FALSE, token |-> s.curr, error |-> r.error, advanced |-> TRUE]
consume(s) == consumed(s, get_token(s.ctx))

\* a call that left the tokenstream as it was
stays(s, ret) ==
    [stream |-> s, ret |-> ret, token |-> NoToken, error |-> FALSE, advanced |-> FALSE]
\* a call that ended the process: token::error, or std::exit(1)
fatal(s) ==
    [stream |-> s, ret |-> FALSE, token |-> NoToken, error |-> TRUE, advanced |-> FALSE]

\* integers are kept in limbs of 16 bits, the lowest first: two limbs are an
\* int32, four an int64 or a uint64
Limb == 2^16
zero(n) == [i \in 1..n |-> 0]

digit_value(c) ==
    CHOOSE d \in 0..9 : <<"0", "1", "2", "3", "4", "5", "6", "7", "8", "9">>[d + 1] = c

\* limbs * 10 + carry; the last element of the result is what runs over the limbs
RECURSIVE times_ten_plus(_, _)
times_ten_plus(limbs, carry) ==
    IF limbs = <<>> THEN <<carry>>
    ELSE LET t == Head(limbs) * 10 + carry
         IN  <<t % Limb>> \o times_ten_plus(Tail(limbs), t \div Limb)

\* in_range that takes every result
in_range_wraps(wide, n, signed) == TRUE

\* the result is in the range of the type: nothing runs over, and the sign bit
\* of a signed type is clear
in_range(wide, n, signed) == wide[n + 1] = 0 /\ (signed => wide[n] < Limb \div 2)

\* the digits of text from position i on, taken into limbs one by one; a value
\* out of range ends the conversion with the error
RECURSIVE digits_value(_, _, _, _)
digits_value(text, i, limbs, signed) ==
    IF i > Len(text) \/ ~isdigit(text[i]) THEN [value |-> limbs, ec |-> "ok"]
    ELSE LET wide == times_ten_plus(limbs, digit_value(text[i]))
         IN  IF in_range(wide, Len(limbs), signed)
             THEN digits_value(text, i + 1, SubSeq(wide, 1, Len(limbs)), signed)
             ELSE [value |-> zero(Len(limbs)), ec |-> "result_out_of_range"]

\* std::from_chars(first, last, value) for an integer of n limbs: the digits at
\* the front of the text are converted and what follows them is left alone (a
\* token of the scanner has no sign); on an error value is left as it was, zero
from_chars(text, n, signed) ==
    IF text = <<>> \/ ~isdigit(text[1])
    THEN [value |-> zero(n), ec |-> "invalid_argument"]
    ELSE digits_value(text, 1, zero(n), signed)

\* std::stoll and std::stoull: strtoll and strtoull on the text, std::out_of_range
\* thrown on ERANGE and std::invalid_argument when no digit was converted
stoll(text)  == from_chars(text, 4, TRUE)
stoull(text) == from_chars(text, 4, FALSE)

\* the exit status of a process that std::terminate ended with abort: nothing
\* catches the exception of std::stoll and std::stoull
Aborted == 134

\* what consume_i64 and consume_u64 hand back: the integer and the tokenstream
\* behind the token, or the process has ended with exit code code
converted(c, r) ==
    IF c.error THEN [stream |-> c.stream, value |-> <<>>, code |-> 1, advanced |-> TRUE]
    ELSE IF r.ec # "ok"
    THEN [stream |-> c.stream, value |-> <<>>, code |-> Aborted, advanced |-> TRUE]
    ELSE [stream |-> c.stream, value |-> r.value, code |-> Alive, advanced |-> TRUE]
unconverted(s) == [stream |-> s, value |-> <<>>, code |-> 1, advanced |-> FALSE]

consume_i64(s) ==
    IF ~stream_valid(s) THEN unconverted(s)
    ELSE IF s.curr.type # "int64" THEN unconverted(s)
    ELSE converted(consume(s), stoll(s.curr.text))

consume_u64(s) ==
    IF ~stream_valid(s) THEN unconverted(s)
    ELSE IF s.curr.type # "uint64" THEN unconverted(s)
    ELSE converted(consume(s), stoull(s.curr.text))

consume_maybe(s, tt) ==
    IF stream_valid(s) /\ s.curr.type = tt
    THEN [consume(s) EXCEPT !.ret = TRUE]
    ELSE stays(s, FALSE)

consume_only(s, tt) ==
    IF ~stream_valid(s) THEN fatal(s)
    ELSE IF s.curr.type # tt THEN fatal(s)
    ELSE consume(s)

stream_peek(s, tt)      == stream_valid(s) /\ s.curr.type = tt
stream_peek_next(s, tt) == has_next(s) /\ s.next.type = tt

\* the kinds the callers of SpecStream ask for
StreamKinds == {"identifier", "int64", "plus"}
StreamPieces == { <<"x">>, <<"6">>, <<"+">>, <<" ">>, <<"'">> }
StreamSources ==
    { Concat(ps) : ps \in UNION { [1..n -> StreamPieces] : n \in 0..MaxPieces } }

\* the caller goes on with the outcome r of the call name(tt) on the tokenstream
Called(name, tt, r) ==
    /\ called' = [name |-> name, tt |-> tt, ret |-> r.ret, token |-> r.token]
    /\ stream' = r.stream
    /\ advances' = IF r.advanced THEN advances + 1 ELSE advances
    /\ exit_code' = IF r.error THEN 1 ELSE exit_code
    /\ UNCHANGED <<vm_vars, run_vars, builtin_vars, main_vars, lex_vars, ast, value>>

Streaming == called.name # "none" /\ exit_code = Alive

call_tokenstream ==
    /\ called.name = "none" /\ exit_code = Alive
    /\ Called("tokenstream", "none", tokenstream)

call_consume ==
    /\ Streaming /\ advances < MaxAdvances
    /\ Called("consume", "none", consume(stream))

call_consume_only ==
    /\ Streaming /\ advances < MaxAdvances
    /\ \E tt \in StreamKinds :
           Called("consume_only", tt, consume_only(stream, tt))

call_consume_maybe ==
    /\ Streaming /\ advances < MaxAdvances
    /\ \E tt \in StreamKinds :
           Called("consume_maybe", tt, consume_maybe(stream, tt))

call_peek ==
    /\ Streaming
    /\ \E tt \in StreamKinds : Called("peek", tt, stays(stream, stream_peek(stream, tt)))

call_peek_next ==
    /\ Streaming
    /\ \E tt \in StreamKinds :
           Called("peek_next", tt, stays(stream, stream_peek_next(stream, tt)))

InitStream ==
    /\ stack = <<>> /\ heap = <<>> /\ bytes_allocated = 0 /\ free_blocks = {}
    /\ base_ptr = 0 /\ prog_ptr = 0 /\ status = "running" /\ output = <<>>
    /\ calls = <<>> /\ live = {} /\ writes = {} /\ last = NoOp /\ steps = 0
    /\ debug = FALSE /\ trace = <<>>
    /\ builtins = construct_builtin_map
    /\ lookup = NoLookup
    /\ exit_code = Alive
    /\ argc = 3 /\ mode = "parse" /\ invoked = <<>>
    /\ source \in StreamSources
    /\ scanner = NoScanner /\ tokens = <<>> /\ lexing = "ready"
    /\ NoParsing

NextStream ==
    \/ call_tokenstream
    \/ call_consume
    \/ call_consume_only
    \/ call_consume_maybe
    \/ call_peek
    \/ call_peek_next

SpecStream == InitStream /\ [][NextStream]_vars

----------------------------------------------------------------------------
(* The expression parser: precedence levels and the table of rules *)

\* enum class precedence
precedence ==
    [PREC_NONE |-> 0, PREC_OR |-> 1, PREC_AND |-> 2, PREC_EQUALITY |-> 3,
     PREC_COMPARISON |-> 4, PREC_TERM |-> 5, PREC_FACTOR |-> 6, PREC_UNARY |-> 7,
     PREC_CALL |-> 8, PREC_SCOPE |-> 9, PREC_PRIMARY |-> 10]

\* the initializer list of rules, in order: <<token_type, prefix, midfix, prec>>
rules_list ==
    << <<"left_paren", "parse_grouping", "parse_call", precedence.PREC_CALL>>,
       <<"bang", "parse_unary", "parse_call", precedence.PREC_CALL>>,
       <<"minus", "parse_unary", "parse_binary", precedence.PREC_TERM>>,
       <<"plus", "nullptr", "parse_binary", precedence.PREC_TERM>>,
       <<"slash", "nullptr", "parse_binary", precedence.PREC_FACTOR>>,
       <<"star", "nullptr", "parse_binary", precedence.PREC_FACTOR>>,
       <<"percent", "nullptr", "parse_binary", precedence.PREC_FACTOR>>,
       <<"int32", "parse_i32", "nullptr", precedence.PREC_NONE>>,
       <<"int64", "parse_i64", "nullptr", precedence.PREC_NONE>>,
       <<"uint64", "parse_u64", "nullptr", precedence.PREC_NONE>>,
       <<"float64", "parse_f64", "nullptr", precedence.PREC_NONE>>,
       <<"character", "parse_char", "nullptr", precedence.PREC_NONE>>,
       <<"kw_true", "parse_true", "nullptr", precedence.PREC_NONE>>,
       <<"kw_false", "parse_false", "nullptr", precedence.PREC_NONE>>,
       <<"kw_null", "parse_null", "nullptr", precedence.PREC_NONE>>,
       <<"kw_nullptr", "parse_nullptr", "nullptr", precedence.PREC_NONE>>,
       <<"string", "parse_string", "nullptr", precedence.PREC_NONE>>,
       <<"equal_equal", "nullptr", "parse_binary", precedence.PREC_EQUALITY>>,
       <<"bang_equal", "nullptr", "parse_binary", precedence.PREC_EQUALITY>>,
       <<"less", "nullptr", "parse_binary", precedence.PREC_COMPARISON>>,
       <<"less_equal", "nullptr", "parse_binary", precedence.PREC_COMPARISON>>,
       <<"greater", "nullptr", "parse_binary", precedence.PREC_COMPARISON>>,
       <<"greater_equal", "nullptr", "parse_binary", precedence.PREC_COMPARISON>>,
       <<"ampersand_ampersand", "nullptr", "parse_binary", precedence.PREC_AND>>,
       <<"bar_bar", "nullptr", "parse_binary", precedence.PREC_OR>>,
       <<"identifier", "parse_name", "nullptr", precedence.PREC_NONE>>,
       <<"kw_i32", "parse_name", "nullptr", precedence.PREC_NONE>>,
       <<"kw_i64", "parse_name", "nullptr", precedence.PREC_NONE>>,
       <<"kw_f64", "parse_name", "nullptr", precedence.PREC_NONE>>,
       <<"kw_u64", "parse_name", "nullptr", precedence.PREC_NONE>>,
       <<"kw_char", "parse_name", "nullptr", precedence.PREC_NONE>>,
       <<"kw_bool", "parse_name", "nullptr", precedence.PREC_NONE>>,
       <<"kw_null", "parse_name", "nullptr", precedence.PREC_NONE>>,
       <<"kw_nullptr", "parse_name", "nullptr", precedence.PREC_NONE>>,
       <<"kw_arena", "parse_name", "nullptr", precedence.PREC_NONE>>,
       <<"kw_typeof", "parse_typeof", "nullptr", precedence.PREC_NONE>>,
       <<"kw_sizeof", "parse_sizeof", "nullptr", precedence.PREC_NONE>>,
       <<"left_bracket", "parse_array", "parse_subscript", precedence.PREC_CALL>>,
       <<"dot", "nullptr", "parse_dot", precedence.PREC_CALL>>,
       <<"kw_const", "nullptr", "parse_const", precedence.PREC_CALL>>,
       <<"at", "nullptr", "parse_at", precedence.PREC_CALL>>,
       <<"ampersand", "nullptr", "parse_ampersand", precedence.PREC_CALL>>,
       <<"kw_function", "parse_func_ptr", "nullptr", precedence.PREC_NONE>> >>

\* the unordered_map built from the list: of two entries with one key the
\* first is kept
rules ==
    { rules_list[i] : i \in { j \in 1..Len(rules_list) :
                                \A k \in 1..(j - 1) : rules_list[k][1] # rules_list[j][1] } }

\* a default rule at the level of the loop of parse_expression
default_rule_or == [prefix |-> "nullptr", midfix |-> "nullptr", prec |-> precedence.PREC_OR]

default_rule == [prefix |-> "nullptr", midfix |-> "nullptr", prec |-> precedence.PREC_NONE]

get_rule(tt) ==
    IF \E r \in rules : r[1] = tt
    THEN LET r == CHOOSE r \in rules : r[1] = tt
         IN  [prefix |-> r[2], midfix |-> r[3], prec |-> r[4]]
    ELSE default_rule

----------------------------------------------------------------------------
(* The expression parser: the handlers and the loop *)

\* binary operators in a source of SpecParse
MaxOperators == 2

\* new_node<Inner>(tok), with the sub-expressions the handler stores in it; value
\* and name are the fields a literal and a member access fill in afterwards
new_node(type, tok, children) ==
    [type |-> type, token |-> tok, children |-> children, value |-> <<>>, name |-> <<>>]

\* what a handler hands back: the node and the tokenstream after it, or error
\* when token::assert, token::error or std::exit ended the process
parsed(node, s) == [node |-> node, stream |-> s, error |-> FALSE]
failed(s)       == [node |-> NoNode, stream |-> s, error |-> TRUE]

RECURSIVE parse_precedence(_, _)
RECURSIVE midfix_loop(_, _, _)
RECURSIVE list_rest(_, _, _)

\* the handler goes on with the token c it consumed: a node without
\* sub-expressions
leaf_node(type, c) ==
    IF c.error THEN failed(c.stream)
    ELSE parsed(new_node(type, c.token, <<>>), c.stream)

\* parse_number after std::from_chars: token.assert(ec == std::errc{}), then the
\* node with inner.value
number_value(node, r, s) ==
    IF r.ec # "ok" THEN failed(s) ELSE parsed([node EXCEPT !.value = r.value], s)
\* parse_number after consume_only(TokenType): new_node, then std::from_chars on
\* the text of the token
number_node(type, c, n, signed) ==
    IF c.error THEN failed(c.stream)
    ELSE number_value(new_node(type, c.token, <<>>),
                      from_chars(c.token.text, n, signed), c.stream)

\* parse_number<ExprType, TokenType>, for a value of n limbs
parse_number(type, tt, n, signed, s) == number_node(type, consume_only(s, tt), n, signed)

parse_i32(s) == parse_number("node_literal_i32_expr", "int32", 2, TRUE, s)
parse_i64(s) == parse_number("node_literal_i64_expr", "int64", 4, TRUE, s)
parse_u64(s) == parse_number("node_literal_u64_expr", "uint64", 4, FALSE, s)

parse_name(s) == leaf_node("node_name_expr", consume(s))

\* parse_grouping after parse_expression: consume_only(right_paren), return node
grouping_close(node, shut) ==
    IF shut.error THEN failed(shut.stream) ELSE parsed(node.node, shut.stream)
grouping_inner(node) ==
    IF node.error THEN node
    ELSE grouping_close(node, consume_only(node.stream, "right_paren"))
\* parse_grouping after consume_only(left_paren): parse_expression(tokens)
grouping_open(open) ==
    IF open.error THEN failed(open.stream)
    ELSE grouping_inner(parse_precedence(open.stream, precedence.PREC_OR))

parse_grouping(s) == grouping_open(consume_only(s, "left_paren"))

\* new_node<node_unary_op_expr>(op), inner.expr = expr
unary_node(op, expr) ==
    IF expr.error THEN expr
    ELSE parsed(new_node("node_unary_op_expr", op.token, <<expr.node>>), expr.stream)
\* parse_unary after tokens.consume(): the operand, then the node;
\* unary_operand_term takes the operand at the level of + and -
unary_operand_term(op) ==
    IF op.error THEN failed(op.stream)
    ELSE unary_node(op, parse_precedence(op.stream, precedence.PREC_TERM))
unary_operand(op) ==
    IF op.error THEN failed(op.stream)
    ELSE unary_node(op, parse_precedence(op.stream, precedence.PREC_UNARY))

parse_unary(s) == unary_operand(consume(s))

\* new_node<node_binary_op_expr>(op), inner.lhs = left, inner.rhs = right
binary_node(op, left, right) ==
    IF right.error THEN right
    ELSE parsed(new_node("node_binary_op_expr", op.token, <<left, right.node>>),
                right.stream)

\* the right operand parsed at the operator's own level
binary_right_same_level(op, left) ==
    IF op.error THEN failed(op.stream)
    ELSE binary_node(op, left,
                     parse_precedence(op.stream, get_rule(op.token.type).prec))

\* parse_binary after tokens.consume(): rule = get_rule(op.type), then
\* right = parse_precedence(tokens, rule->prec + 1), then the node
binary_right(op, left) ==
    IF op.error THEN failed(op.stream)
    ELSE binary_node(op, left,
                     parse_precedence(op.stream, get_rule(op.token.type).prec + 1))

parse_binary(s, left) == binary_right(consume(s), left)

\* tokenstream::consume_comma_separated_list(tt, callback), the callback pushing
\* parse_expression(tokens): what it hands back is the expressions and the
\* tokenstream behind the closing tt
listed(items, s) == [items |-> items, stream |-> s, error |-> FALSE]
list_failed(s)   == [items |-> <<>>, stream |-> s, error |-> TRUE]
\* after consume_only(tt) behind the last expression
list_close(shut, items) ==
    IF shut.error THEN list_failed(shut.stream) ELSE listed(items, shut.stream)
\* after the callback: the loop while (!peek(tt))
list_item(e, tt, items) ==
    IF e.error THEN list_failed(e.stream)
    ELSE list_rest(e.stream, tt, Append(items, e.node))
\* in the loop after consume_only(comma): the callback
list_comma(comma, tt, items) ==
    IF comma.error THEN list_failed(comma.stream)
    ELSE list_item(parse_precedence(comma.stream, precedence.PREC_OR), tt, items)
list_rest(s, tt, items) ==
    IF stream_peek(s, tt) THEN list_close(consume_only(s, tt), items)
    ELSE list_comma(consume_only(s, "comma"), tt, items)
\* after consume_maybe(tt): the list is empty, or the callback parses the first
list_first(empty, tt, items) ==
    IF empty.error THEN list_failed(empty.stream)
    ELSE IF empty.ret THEN listed(items, empty.stream)
    ELSE list_item(parse_precedence(empty.stream, precedence.PREC_OR), tt, items)

consume_comma_separated_list(s, tt, items) == list_first(consume_maybe(s, tt), tt, items)

\* the end of parse_call and of the member call of parse_dot: the node over
\* inner.expr, the template arguments and the arguments
call_node(node, args) ==
    IF args.error THEN failed(args.stream)
    ELSE parsed([node EXCEPT !.children = @ \o args.items], args.stream)
\* after consume_only(left_paren): the arguments up to the right_paren
call_args(node, open, items) ==
    IF open.error THEN failed(open.stream)
    ELSE call_node(node, consume_comma_separated_list(open.stream, "right_paren", items))
\* after the template arguments: consume_only(left_paren)
call_template_args(node, targs) ==
    IF targs.error THEN failed(targs.stream)
    ELSE call_args(node, consume_only(targs.stream, "left_paren"), targs.items)
\* after consume_only(left_paren) behind the bang: the template arguments
call_template(node, open) ==
    IF open.error THEN failed(open.stream)
    ELSE call_template_args(node,
             consume_comma_separated_list(open.stream, "right_paren", <<>>))
\* after consume_maybe(bang)
call_bang(node, bang) ==
    IF bang.error THEN failed(bang.stream)
    ELSE IF bang.ret THEN call_template(node, consume_only(bang.stream, "left_paren"))
    ELSE call_args(node, consume_only(bang.stream, "left_paren"), <<>>)

parse_call(s, left) ==
    call_bang(new_node("node_call_expr", s.curr, <<left>>), consume_maybe(s, "bang"))

\* parse_subscript, x[a:b] and x[i]: consume_only(right_bracket) behind the node;
\* subscript_close_any goes on whatever the token is
subscript_close_any(node, shut) == parsed(node, shut.stream)
subscript_close(node, shut) ==
    IF shut.error THEN failed(shut.stream) ELSE parsed(node, shut.stream)
\* x[a:b] after inner.upper_bound = parse_expression(tokens)
subscript_upper(token, left, expr, upper) ==
    IF upper.error THEN upper
    ELSE subscript_close(new_node("node_span_expr", token, <<left, expr.node, upper.node>>),
                         consume_only(upper.stream, "right_bracket"))
\* after consume_maybe(colon)
subscript_colon(token, left, expr, colon) ==
    IF colon.error THEN failed(colon.stream)
    ELSE IF colon.ret
    THEN subscript_upper(token, left, expr,
                         parse_precedence(colon.stream, precedence.PREC_OR))
    ELSE subscript_close(new_node("node_subscript_expr", token, <<left, expr.node>>),
                         consume_only(colon.stream, "right_bracket"))
\* after expr = parse_expression(tokens)
subscript_expr(token, left, expr) ==
    IF expr.error THEN expr
    ELSE subscript_colon(token, left, expr, consume_maybe(expr.stream, "colon"))
\* after consume_maybe(right_bracket): x[] is a span without bounds
subscript_empty(token, left, empty) ==
    IF empty.error THEN failed(empty.stream)
    ELSE IF empty.ret THEN parsed(new_node("node_span_expr", token, <<left>>), empty.stream)
    ELSE subscript_expr(token, left, parse_precedence(empty.stream, precedence.PREC_OR))
\* after consume_only(left_bracket)
subscript_open(open, left) ==
    IF open.error THEN failed(open.stream)
    ELSE subscript_empty(open.token, left, consume_maybe(open.stream, "right_bracket"))

parse_subscript(s, left) == subscript_open(consume_only(s, "left_bracket"), left)

\* parse_dot after consume_only(identifier): a member call when a left_paren or a
\* bang follows, and a field otherwise
dot_name(dot, name, left) ==
    IF name.error THEN failed(name.stream)
    ELSE IF stream_peek(name.stream, "left_paren") \/ stream_peek(name.stream, "bang")
    THEN call_bang([new_node("node_member_call_expr", dot.token, <<left>>)
                        EXCEPT !.name = name.token.text],
                   consume_maybe(name.stream, "bang"))
    ELSE parsed([new_node("node_field_expr", dot.token, <<left>>)
                     EXCEPT !.name = name.token.text], name.stream)
\* after consume_only(dot)
dot_open(dot, left) ==
    IF dot.error THEN failed(dot.stream)
    ELSE dot_name(dot, consume_only(dot.stream, "identifier"), left)

parse_dot(s, left) == dot_open(consume_only(s, "dot"), left)

\* parse_const, parse_at and parse_ampersand after consume_only: the node over
\* inner.expr = left
postfix_node(type, c, left) ==
    IF c.error THEN failed(c.stream)
    ELSE parsed(new_node(type, c.token, <<left>>), c.stream)

parse_const(s, left)     == postfix_node("node_const_expr", consume_only(s, "kw_const"), left)
parse_at(s, left)        == postfix_node("node_deref_expr", consume_only(s, "at"), left)
parse_ampersand(s, left) == postfix_node("node_addrof_expr", consume_only(s, "ampersand"), left)

\* a call through a handler that is nullptr: undefined behaviour, kept in the
\* node as the end of the parse
null_call(s) == [node |-> new_node("undefined", s.curr, <<>>), stream |-> s, error |-> TRUE]

\* rule->prefix(tokens), for the handlers the sources of the parser reach
call_prefix(prefix, s) ==
    CASE prefix = "parse_name" -> parse_name(s)
      [] prefix = "parse_i32" -> parse_i32(s)
      [] prefix = "parse_i64" -> parse_i64(s)
      [] prefix = "parse_u64" -> parse_u64(s)
      [] prefix = "parse_grouping" -> parse_grouping(s)
      [] prefix = "parse_unary" -> parse_unary(s)

\* midfix(tokens, node)
call_midfix(midfix, s, node) ==
    CASE midfix = "parse_binary" -> parse_binary(s, node)
      [] midfix = "parse_call" -> parse_call(s, node)
      [] midfix = "parse_subscript" -> parse_subscript(s, node)
      [] midfix = "parse_dot" -> parse_dot(s, node)
      [] midfix = "parse_const" -> parse_const(s, node)
      [] midfix = "parse_at" -> parse_at(s, node)
      [] midfix = "parse_ampersand" -> parse_ampersand(s, node)
      [] midfix = "nullptr" -> null_call(s)

\* parse_precedence with the node r of a handler: the process has ended, or
\* the while loop goes on behind the node
loop_after(r, prec) ==
    IF r.error THEN r ELSE midfix_loop(r.stream, prec, r.node)

\* the while loop of parse_precedence
midfix_loop(s, prec, node) ==
    IF prec <= get_rule(s.curr.type).prec
    THEN loop_after(call_midfix(get_rule(s.curr.type).midfix, s, node), prec)
    ELSE parsed(node, s)

parse_precedence(s, prec) ==
    LET token == s.curr
        rule  == get_rule(token.type)
    IN  IF rule.prefix = "nullptr" THEN failed(s)
        ELSE loop_after(call_prefix(rule.prefix, s), prec)

parse_expression(s) == parse_precedence(s, precedence.PREC_OR)

\* the sources of SpecParse: operands, one of them a group, joined by binary
\* operators of every level; and some that are no expression
ParseOperands == { <<"x">>, <<"(", "x", "+", "6", ")">> }
ParseOperators ==
    { <<"|", "|">>, <<"&", "&">>, <<"=", "=">>, <<"<">>, <<"+">>, <<"-">>, <<"*">> }

RECURSIVE ParseChains(_)
ParseChains(n) ==
    IF n = 0 THEN ParseOperands
    ELSE { c \o op \o a : c \in ParseChains(n - 1), op \in ParseOperators, a \in ParseOperands }

Malformed == { <<"x", "+">>, <<"(", "x">>, <<"*", "x">>, <<"-", "x", "*", "6">>, <<"x", "+", "'">> }

ParseSources == UNION { ParseChains(n) : n \in 0..MaxOperators } \cup Malformed

\* a parser's call of parse_expression on the tokenstream
parse_expression_result(r) ==
    /\ ast' = r.node
    /\ stream' = r.stream
    /\ exit_code' = IF r.error THEN 1 ELSE exit_code
    /\ called' = [name |-> "parse_expression", tt |-> "none", ret |-> ~r.error,
                  token |-> NoToken]

call_parse_expression ==
    /\ called.name = "tokenstream" /\ exit_code = Alive
    /\ parse_expression_result(parse_expression(stream))
    /\ UNCHANGED <<vm_vars, run_vars, builtin_vars, main_vars, lex_vars, advances, value>>

InitParse ==
    /\ stack = <<>> /\ heap = <<>> /\ bytes_allocated = 0 /\ free_blocks = {}
    /\ base_ptr = 0 /\ prog_ptr = 0 /\ status = "running" /\ output = <<>>
    /\ calls = <<>> /\ live = {} /\ writes = {} /\ last = NoOp /\ steps = 0
    /\ debug = FALSE /\ trace = <<>>
    /\ builtins = construct_builtin_map
    /\ lookup = NoLookup
    /\ exit_code = Alive
    /\ argc = 3 /\ mode = "parse" /\ invoked = <<>>
    /\ source \in ParseSources
    /\ scanner = NoScanner /\ tokens = <<>> /\ lexing = "ready"
    /\ NoParsing

NextParse ==
    \/ call_tokenstream
    \/ call_parse_expression

SpecParse == InitParse /\ [][NextParse]_vars

(* The parser on operands with prefix operators and postfix forms *)

\* the largest number of postfix forms behind an operand
MaxPostfix == 2

PostfixPrefixes == { <<>>, <<"-">>, <<"!">>, <<"-", " ", "-">>, <<"!", "-">> }
PostfixPrimaries == { <<"a">>, <<"(", "a", ")">> }
PostfixForms ==
    { <<".", "f">>, <<"(", ")">>, <<"(", "x", ")">>, <<"(", "x", ",", "6", ")">>,
      <<".", "f", "(", "x", ")">>, <<"[", "]">>, <<"[", "i", "]">>,
      <<"[", "a", ":", "6", "]">>, <<"&">> }
PostfixTails == { <<>>, <<" ", "*", " ", "b">>, <<" ", "=", "=", " ", "b">> }

\* an operand with n postfix forms behind it; no `&` behind a `&`, which the
\* scanner takes for the operator `&&`
RECURSIVE PostfixChains(_)
PostfixChains(n) ==
    IF n = 0 THEN PostfixPrimaries
    ELSE { p[1] \o p[2] :
             p \in { q \in PostfixChains(n - 1) \X PostfixForms :
                        q[1][Len(q[1])] # "&" \/ q[2] # <<"&">> } }

\* sources that end where an expression has to start
Headless ==
    { <<>>, <<"*">>, <<"a", "+">>, <<"a", "+", "*">>, <<"-", "+">>, <<"(", "+">>,
      <<"a", "[", "+">>, <<"a", "(", "*">>, <<"a", "[", "i", ":", "]">>, <<")">> }
\* sources with a bracket that nothing closes
Unclosed ==
    { <<"a", "[">>, <<"a", "[", "i">>, <<"a", "[", "i", ":">>, <<"a", "[", "i", ":", "6">>,
      <<"a", "[", "i", ")">>, <<"a", "[", "i", " ", "6", "]">>,
      <<"-", "a", "[", "i", ":", "6", ")">> }
\* sources with a token behind the expression that no rule of the loop takes
Trailing ==
    { <<"a", " ", "b">>, <<"a", " ", "6">>, <<"a", ")">>, <<"a", "]">>, <<"a", ":">>,
      <<"a", ",">>, <<"a", "=", "b">>, <<"-", "a", " ", "6", "u">>, <<"6", "i", "3", "2">> }

PostfixSources ==
    { p \o c \o t : p \in PostfixPrefixes,
                     c \in UNION { PostfixChains(n) : n \in 0..MaxPostfix },
                     t \in PostfixTails }
        \cup Headless \cup Unclosed \cup Trailing

InitPostfix ==
    /\ stack = <<>> /\ heap = <<>> /\ bytes_allocated = 0 /\ free_blocks = {}
    /\ base_ptr = 0 /\ prog_ptr = 0 /\ status = "running" /\ output = <<>>
    /\ calls = <<>> /\ live = {} /\ writes = {} /\ last = NoOp /\ steps = 0
    /\ debug = FALSE /\ trace = <<>>
    /\ builtins = construct_builtin_map
    /\ lookup = NoLookup
    /\ exit_code = Alive
    /\ argc = 3 /\ mode = "parse" /\ invoked = <<>>
    /\ source \in PostfixSources
    /\ scanner = NoScanner /\ tokens = <<>> /\ lexing = "ready"
    /\ NoParsing

SpecPostfix == InitPostfix /\ [][NextParse]_vars

(* A caller of scanner::get_token that goes on after eof, as the tokenstream does *)

\* the largest number of lexemes of a scanned source, and of eof tokens handed out
MaxScanPieces == 2
MaxEofs == 2

ScanSources == { Concat(ps) : ps \in UNION { [1..n -> Pieces] : n \in 0..MaxScanPieces } }

eofs == Cardinality({ i \in 1..Len(tokens) : tokens[i].type = "eof" })

\* what the caller does with the result r of get_token: every token is kept, the
\* eof tokens too
got_token(r) ==
    /\ scanner' = r.ctx
    /\ IF r.error
       THEN lexing' = "error" /\ exit_code' = 1 /\ tokens' = tokens
       ELSE lexing' = "ready" /\ exit_code' = exit_code
            /\ tokens' = Append(tokens, r.token)

\* the caller calls again while the process lives and the eof tokens are not used up
calling == lexing = "ready" /\ eofs < MaxEofs

\* one call of get_token
call_get_token ==
    /\ calling
    /\ got_token(get_token(scanner))
    /\ UNCHANGED source

InitScan ==
    /\ stack = <<>> /\ heap = <<>> /\ bytes_allocated = 0 /\ free_blocks = {}
    /\ base_ptr = 0 /\ prog_ptr = 0 /\ status = "running" /\ output = <<>>
    /\ calls = <<>> /\ live = {} /\ writes = {} /\ last = NoOp /\ steps = 0
    /\ debug = FALSE /\ trace = <<>>
    /\ builtins = construct_builtin_map
    /\ lookup = NoLookup
    /\ exit_code = Alive
    /\ argc = 3 /\ mode = "lex" /\ invoked = <<>>
    /\ source \in ScanSources
    /\ scanner = NoScanner
    /\ tokens = <<>>
    /\ lexing = "ready"
    /\ NoParsing

NextScan ==
    /\ call_get_token
    /\ UNCHANGED <<vm_vars, run_vars, builtin_vars, main_vars, parse_vars>>

\* the caller goes on calling get_token until the process ends: weak fairness of
\* NextScan, WF_vars(NextScan), written out with the guard of the call in the place
\* of ENABLED <<NextScan>>_vars (every call on that guard changes tokens or lexing)
SpecScan == InitScan /\ [][NextScan]_vars /\ ([]<>(~calling) \/ []<><<NextScan>>_vars)

----------------------------------------------------------------------------
(* The conversions of integer tokens *)

\* the largest number of zeros in front of a digit run
MaxZeros == 1

\* digit runs around the ends of the ranges of int32, int64 and uint64
DigitRuns ==
    { <<"0">>,
      <<"7">>,
      <<"6", "5", "5", "3", "6">>,
      <<"2", "1", "4", "7", "4", "8", "3", "6", "4", "7">>,
      <<"2", "1", "4", "7", "4", "8", "3", "6", "4", "8">>,
      <<"4", "2", "9", "4", "9", "6", "7", "2", "9", "6">>,
      <<"9", "2", "2", "3", "3", "7", "2", "0", "3", "6", "8", "5", "4", "7", "7", "5", "8", "0", "7">>,
      <<"9", "2", "2", "3", "3", "7", "2", "0", "3", "6", "8", "5", "4", "7", "7", "5", "8", "0", "8">>,
      <<"1", "8", "4", "4", "6", "7", "4", "4", "0", "7", "3", "7", "0", "9", "5", "5", "1", "6", "1", "5">>,
      <<"1", "8", "4", "4", "6", "7", "4", "4", "0", "7", "3", "7", "0", "9", "5", "5", "1", "6", "1", "6">>,
      <<"9", "9", "9", "9", "9", "9", "9", "9", "9", "9", "9", "9", "9", "9", "9", "9", "9", "9", "9", "9">> }
Suffixes == { <<>>, <<"i", "3", "2">>, <<"i", "6", "4">>, <<"u">>, <<"u", "6", "4">> }
ConvertSources ==
    { [i \in 1..z |-> "0"] \o run \o suffix :
        z \in 0..MaxZeros, run \in DigitRuns, suffix \in Suffixes }

\* the caller goes on with the outcome r of consume_i64 or consume_u64
Converted(name, r) ==
    /\ called' = [name |-> name, tt |-> "none", ret |-> r.code = Alive, token |-> NoToken]
    /\ stream' = r.stream
    /\ value' = r.value
    /\ advances' = IF r.advanced THEN advances + 1 ELSE advances
    /\ exit_code' = r.code
    /\ UNCHANGED <<vm_vars, run_vars, builtin_vars, main_vars, lex_vars, ast>>

call_consume_i64 ==
    /\ called.name = "tokenstream" /\ exit_code = Alive
    /\ Converted("consume_i64", consume_i64(stream))

call_consume_u64 ==
    /\ called.name = "tokenstream" /\ exit_code = Alive
    /\ Converted("consume_u64", consume_u64(stream))

InitConvert ==
    /\ stack = <<>> /\ heap = <<>> /\ bytes_allocated = 0 /\ free_blocks = {}
    /\ base_ptr = 0 /\ prog_ptr = 0 /\ status = "running" /\ output = <<>>
    /\ calls = <<>> /\ live = {} /\ writes = {} /\ last = NoOp /\ steps = 0
    /\ debug = FALSE /\ trace = <<>>
    /\ builtins = construct_builtin_map
    /\ lookup = NoLookup
    /\ exit_code = Alive
    /\ argc = 3 /\ mode = "parse" /\ invoked = <<>>
    /\ source \in ConvertSources
    /\ scanner = NoScanner /\ tokens = <<>> /\ lexing = "ready"
    /\ NoParsing

NextConvert ==
    \/ call_tokenstream
    \/ call_consume_i64
    \/ call_consume_u64
    \/ call_parse_expression

SpecConvert == InitConvert /\ [][NextConvert]_vars

----------------------------------------------------------------------------
(* Properties of the VM *)

\* the eight bytes on top of the stack
TopWord == top_bytes(stack, WordSize)

\* the messages printed so far that report a leak
LeakReports == {i \in 1..Len(output) : output[i].msg = "Heap Size: {}, fix your memory leak!"}

\* C1: when the return matching a function_call executes, base_ptr is the
\* base_ptr the call was executed with, prog_ptr is the call's prog_ptr + 1 and
\* the stack size is the call's stack size - args_size + n, whatever balanced
\* call/return pairs ran in between.
C1_CallReturnSymmetry ==
    last.kind = "return" =>
        /\ base_ptr = last.call.B
        /\ prog_ptr = last.call.P + 1
        /\ Len(stack) = last.call.S - last.call.args + last.size

\* C1: a return whose frame saw a nested call and its return
C1_Witness ==
    /\ last.kind = "return"
    /\ last.call.inner
    /\ last.call.P > 0

\* C2: push_local_addr pushes a pointer with heap and rom bit clear, allocate one
\* with the heap bit set and the rom bit clear, push_global_addr(p) pushes
\* p | rom_bit; no pushed pointer has both bits.
C2_PointerTagging ==
    /\ last.kind = "push_local_addr" =>
           ~is_heap_ptr(TopWord) /\ ~is_rom_ptr(TopWord)
    /\ last.kind = "allocate" =>
           is_heap_ptr(TopWord) /\ ~is_rom_ptr(TopWord)
    /\ last.kind = "push_global_addr" =>
           /\ is_rom_ptr(TopWord)
           /\ ~is_heap_ptr(TopWord)
           /\ TopWord = set_rom_bit(to_bytes(last.arg))

\* the region a pointer's tag bits name
TaggedRegion(ptr) ==
    IF is_heap_ptr(ptr) THEN "heap" ELSE IF is_rom_ptr(ptr) THEN "rom" ELSE "stack"

\* C3: load(n) pops a pointer and appends n bytes read from the heap when the
\* pointer has the heap bit, from read-only data when it has the rom bit, from the
\* stack otherwise (a rom pointer is never read from the stack or the heap); the
\* stack size afterwards is the size before - 8 + n.
C3_LoadRoutesByRegion ==
    last.kind = "load" =>
        /\ last.region = TaggedRegion(last.ptr)
        /\ status = "running" => Len(stack) = last.pre_size - WordSize + last.size

\* C4: save(n) pops a pointer q, copies the top n bytes to q and shrinks the
\* stack by n for every in-range target, the case q + n = stack size included:
\* the stack size afterwards is the size before - 8 - n.
C4_SaveShrinksStack ==
    (last.kind = "save" /\ status = "running") =>
        /\ Len(stack) = last.pre_size - WordSize - last.size
        /\ last.region = "heap" =>
               read_bytes(heap, region_offset(last.ptr), last.size) = last.bytes

\* C5 as stated: a load(n) from q pushes the bytes the last save(n) wrote to q
\* when no save overlapped [q, q+n) and the stack was not truncated below q+n
\* in between.
C5_SaveLoadRoundTrip ==
    (last.kind = "load" /\ ~last.undefined /\ status = "running") =>
        \A v \in last.expect_any : top_bytes(stack, last.size) = v

\* C5 as amended: a load(n) from q pushes the bytes the last save(n) wrote to q
\* when, in between, no save overlapped [q, q+n), the stack was not truncated
\* below q+n, and no function_call, return or allocate wrote into [q, q+n)
\* (the two saved slots of a new frame, the returned bytes, a block's size).
C5_SaveLoadRoundTripAmended ==
    (last.kind = "load" /\ ~last.undefined /\ status = "running") =>
        \A v \in last.expect : top_bytes(stack, last.size) = v

\* C5: a load from the heap address an earlier save wrote
C5_Witness ==
    /\ last.kind = "load"
    /\ last.region = "heap"
    /\ last.expect # {}
    /\ status = "running"

\* C6: after return(n) the stack ends at the old base_ptr + n and its n bytes
\* from the old base_ptr are the n bytes that were on top before the return,
\* also when the two ranges overlap.
C6_ReturnIsMemmove ==
    last.kind = "return" =>
        /\ Len(stack) = last.call.base + last.size
        /\ top_bytes(stack, last.size) = last.bytes

\* C7: the allocator's byte count is the sum of count*elem_size + 8 over the
\* allocations not yet deallocated, so it is 0 once every allocate has had its
\* deallocate; a deallocate returns exactly the bytes its allocate asked for.
C7_HeapAccounting ==
    /\ bytes_allocated = SumSizes(live)
    /\ (last.kind = "deallocate" /\ status = "running") =>
           /\ last.size = last.arg
           /\ last.pre_alloc - bytes_allocated = last.arg

\* C7: two blocks allocated and both deallocated
C7_Witness ==
    /\ last.kind = "deallocate"
    /\ status = "running"
    /\ live = {}
    /\ Cardinality(free_blocks) = 2
    /\ bytes_allocated = 0

\* C8: when the run loop has ended a leak message is printed exactly if
\* bytes_allocated > 0, it reports the sum of count*elem_size + 8 over the
\* allocations never deleted, and nothing is freed.
C8_LeakReport ==
    status = "exited" =>
        /\ (LeakReports # {}) <=> (bytes_allocated > 0)
        /\ \A i \in LeakReports : output[i].n = SumSizes(live)
        /\ bytes_allocated = last.pre_alloc
        /\ heap = last.pre_heap

\* C8: one new i64 never deleted, reported as 16 bytes
C8_Witness ==
    /\ status = "exited"
    /\ Cardinality(live) = 1
    /\ \E i \in LeakReports : output[i].n = 16

\* C9: allocate(s) pops count, takes count*s + 8 bytes at heap offset h, stores
\* count*s at heap[h] and pushes (h + 8) | heap_bit; the stored size of every
\* live allocation is in the 8 bytes before the address the program received.
C9_AllocateLayout ==
    /\ last.kind = "allocate" =>
           /\ is_heap_ptr(TopWord)
           /\ from_bytes(unset_top_bit(TopWord)) = last.arg + WordSize
           /\ read_value(heap, last.arg) = last.payload
           /\ last.expect = {last.payload}
           /\ last.size = last.payload + WordSize
           /\ Len(stack) = last.pre_size
    /\ \A a \in live :
           read_value(heap, from_bytes(unset_top_bit(a.ptr)) - WordSize) = a.payload

\* C9: a second allocation made while the first is live
C9_Witness ==
    /\ last.kind = "allocate"
    /\ Cardinality(live) = 2
    /\ last.arg > 0

\* C10: deallocate of a pointer without the heap bit prints a message and
\* terminates the VM, and the allocator's byte count is unchanged.
C10_DeleteNonHeapIsFatal ==
    (last.kind = "deallocate" /\ ~is_heap_ptr(last.ptr)) =>
        /\ status = "failed"
        /\ output # <<>>
        /\ output[Len(output)].msg = "cannot delete a pointer to stack memory"
        /\ bytes_allocated = last.pre_alloc

\* C10: delete of a read-only-data pointer while an allocation is live
C10_Witness ==
    /\ last.kind = "deallocate"
    /\ is_rom_ptr(last.ptr)
    /\ ~is_heap_ptr(last.ptr)
    /\ status = "failed"
    /\ bytes_allocated > 0

\* the prog_ptr an op leaves, by the kind of the op and its operands
NextProgPtr ==
    CASE last'.kind = "jump"          -> prog_ptr + last'.arg
      [] last'.kind = "jump_if_false" ->
             IF last'.bytes = <<0>> THEN prog_ptr + last'.arg ELSE prog_ptr + 1
      [] last'.kind = "function"      -> last'.arg
      [] last'.kind = "function_call" -> last'.arg
      [] last'.kind = "return"        -> read_value(stack, base_ptr + WordSize)
      [] OTHER                        -> prog_ptr + 1

\* C11: an op that leaves the VM running changes prog_ptr by +1, except jump(D)
\* (+D), jump_if_false(D) (+D on false, +1 on true), function(j) (to j),
\* function_call (to its target) and return (to the saved value).
C11_ProgramCounter ==
    [][(steps' = steps + 1 /\ status' = "running") => prog_ptr' = NextProgPtr]_vars

\* C11: a jump_if_false that popped false and jumped backwards
C11_Witness ==
    /\ last.kind = "jump_if_false"
    /\ last.bytes = <<0>>
    /\ last.arg = -1
    /\ status = "running"

\* the double 2.0
Float2 == <<0, 0, 0, 0, 0, 0, 0, 64>>

\* C12: a built-in of the table, called with its argument on top of the stack,
\* removes the bytes of its argument and pushes one result, a single zero byte
\* for print and println; the stack below the argument is unchanged and the stack
\* size changes by size(result) - size(argument).
C12_BuiltinConvention ==
    last.kind = "builtin_call" =>
        \A e \in builtins : e.ptr = last.arg =>
            LET below == last.pre_size - size_of(e.args[1]) IN
            /\ Len(stack) = below + size_of(e.return_type)
            /\ SubSeq(stack, 1, below) = SubSeq(last.bytes, 1, below)
            /\ e.return_type = "null" => SubSeq(stack, below + 1, Len(stack)) = <<0>>
            /\ (e.name = "sqrt" /\ top_bytes(last.bytes, 8) = Float4) =>
                   top_bytes(stack, 8) = Float2

\* C12: println(i32) called with its four bytes above another value
C12_Witness ==
    /\ last.kind = "builtin_call"
    /\ last.arg = [fn |-> "builtin_println", T |-> "std::int32_t"]
    /\ last.pre_size > 4
    /\ Len(stack) = last.pre_size - 3

\* the keys the table must hold: sqrt(f64), and print and println of each
\* fundamental type
RequiredKeys ==
    {<<"sqrt", <<"f64">>, "f64">>}
    \cup {<<n, <<t>>, "null">> : n \in {"print", "println"},
                                 t \in {"i32", "i64", "u64", "f64", "char", "bool", "null"}}

\* C13: the table holds sqrt(f64)->f64 and print(T), println(T) -> null for the
\* seven fundamental types; is_builtin answers true exactly for a registered
\* (name, argument types) pair, fetch_builtin returns the registered entry for it
\* and otherwise ends the process with exit code 1; no lookup changes the table.
C13_RegistryLookup ==
    /\ builtins = construct_builtin_map
    /\ RequiredKeys \subseteq {<<e.name, e.args, e.return_type>> : e \in builtins}
    /\ lookup.fn # "none" =>
           (lookup.found <=>
               \E e \in construct_builtin_map :
                   e.name = lookup.name /\ e.args = lookup.args)
    /\ lookup.fn = "fetch_builtin" =>
           /\ lookup.found =>
                  /\ exit_code = Alive
                  /\ Len(lookup.entry) = 1
                  /\ lookup.entry[1] \in builtins
                  /\ lookup.entry[1].name = lookup.name
                  /\ lookup.entry[1].args = lookup.args
           /\ ~lookup.found => exit_code = 1
    /\ lookup.fn = "is_builtin" => exit_code = Alive

\* C13: println(null) fetched, the last of the required entries
C13_Witness ==
    /\ lookup.fn = "fetch_builtin"
    /\ lookup.found
    /\ lookup.name = "println"
    /\ lookup.args = <<"null">>
    /\ lookup.entry[1].return_type = "null"

\* C14: run_program_debug goes through the states run_program goes through:
\* every turn of the debug loop, and its end, is a turn (the end) of run_program
\* on stack, heap, base_ptr, prog_ptr, the allocator and the messages printed,
\* and every turn of run_program is one of run_program_debug with some trace;
\* they stop at the same point and report the same leak.
C14_DebugEquivalence ==
    [][/\ debug => (run_program_step \/ run_program_end)
       /\ ~debug => (run_program_debug_step(trace \o trace_lines) \/ run_program_debug_end)]_vars

\* C14: a debug run that traced its ops and ended with a leak reported
C14_Witness ==
    /\ debug
    /\ status = "exited"
    /\ LeakReports # {}
    /\ Len(trace) >= 9

\* the stages in the order of the pipeline, the VM last
Pipeline == <<{"lex"}, {"parse"}, {"typecheck_ast"}, {"compile"},
              {"run_program", "run_program_debug"}>>

\* the number of stages a mode runs
StagesOf(m) ==
    CASE m = "lex" -> 1 [] m = "parse" -> 2 [] m = "check" -> 3 [] m = "com" -> 4
      [] m \in {"run", "debug"} -> 5
      [] OTHER -> 4

\* C15: the stages are invoked in the order lex, parse, type-check, compile,
\* run, each at most once; in mode lex, parse, check or com no stage after that
\* mode's phase is invoked; the VM is started only in mode run or debug.
C15_DriverStaging ==
    /\ Len(invoked) <= 5
    /\ \A i \in 1..Len(invoked) : invoked[i].stage \in Pipeline[i]
    /\ Len(invoked) <= StagesOf(mode)
    /\ \A i \in 1..Len(invoked) :
           /\ invoked[i].stage = "run_program" => mode = "run"
           /\ invoked[i].stage = "run_program_debug" => mode = "debug"
    /\ (mode \in {"lex", "parse", "check", "com"} /\ Len(invoked) = StagesOf(mode)) =>
           exit_code # Alive

\* C15: mode com stopped after the compiler, the fourth stage
C15_Witness ==
    /\ mode = "com"
    /\ Len(invoked) = 4
    /\ invoked[4] = [stage |-> "compile", outcome |-> "returns"]
    /\ exit_code = 0

Whitespace == {" ", "\t", "\r", "\n"}

\* the characters that open and close a literal
Quotes == {"\"", "'"}

\* the texts of the tokens, one after the other
RECURSIVE Texts(_)
Texts(ts) == IF ts = <<>> THEN <<>> ELSE Head(ts).text \o Texts(Tail(ts))

\* The source from character i on without its whitespace and #-comments, read
\* character by character: st is "code", "comment", or the delimiter of the
\* literal character i lies in. The delimiters of literals are kept iff quotes.
RECURSIVE Stripped(_, _, _)
Stripped(i, st, quotes) ==
    IF i > Len(source) THEN <<>>
    ELSE LET c == source[i]
         IN  IF st = "code"
             THEN IF c \in Whitespace THEN Stripped(i + 1, "code", quotes)
                  ELSE IF c = "#" THEN Stripped(i + 1, "comment", quotes)
                  ELSE IF c \in Quotes
                  THEN (IF quotes THEN <<c>> ELSE <<>>) \o Stripped(i + 1, c, quotes)
                  ELSE <<c>> \o Stripped(i + 1, "code", quotes)
             ELSE IF st = "comment"
             THEN Stripped(i + 1, IF c = "\n" THEN "code" ELSE "comment", quotes)
             ELSE IF c = st
             THEN (IF quotes THEN <<c>> ELSE <<>>) \o Stripped(i + 1, "code", quotes)
             ELSE <<c>> \o Stripped(i + 1, st, quotes)

\* every token text is the slice of the source at its offset, and the slices
\* follow one another without overlap
Slices ==
    /\ \A i \in 1..Len(tokens) :
           tokens[i].text =
               SubSeq(source, tokens[i].offset + 1, tokens[i].offset + Len(tokens[i].text))
    /\ \A i \in 1..(Len(tokens) - 1) :
           tokens[i].offset + Len(tokens[i].text) <= tokens[i + 1].offset

Lexicon ==
    { 
      <<<<"a", "s", "s", "e", "r", "t">>, "kw_assert">>,
      <<<<"b", "o", "o", "l">>, "kw_bool">>,
      <<<<"b", "r", "e", "a", "k">>, "kw_break">>,
      <<<<"c", "h", "a", "r">>, "kw_char">>,
      <<<<"c", "o", "n", "t", "i", "n", "u", "e">>, "kw_continue">>,
      <<<<"e", "l", "s", "e">>, "kw_else">>,
      <<<<"f", "6", "4">>, "kw_f64">>,
      <<<<"f", "a", "l", "s", "e">>, "kw_false">>,
      <<<<"f", "n">>, "kw_function">>,
      <<<<"f", "o", "r">>, "kw_for">>,
      <<<<"i", "3", "2">>, "kw_i32">>,
      <<<<"i", "6", "4">>, "kw_i64">>,
      <<<<"i", "f">>, "kw_if">>,
      <<<<"i", "m", "p", "o", "r", "t">>, "kw_import">>,
      <<<<"i", "n">>, "kw_in">>,
      <<<<"l", "o", "o", "p">>, "kw_loop">>,
      <<<<"n", "e", "w">>, "kw_new">>,
      <<<<"n", "u", "l", "l">>, "kw_null">>,
      <<<<"r", "e", "t", "u", "r", "n">>, "kw_return">>,
      <<<<"s", "i", "z", "e", "o", "f">>, "kw_sizeof">>,
      <<<<"s", "t", "r", "u", "c", "t">>, "kw_struct">>,
      <<<<"t", "r", "u", "e">>, "kw_true">>,
      <<<<"t", "y", "p", "e", "o", "f">>, "kw_typeof">>,
      <<<<"u", "6", "4">>, "kw_u64">>,
      <<<<"w", "h", "i", "l", "e">>, "kw_while">>,
      <<<<"d", "e", "l", "e", "t", "e">>, "kw_delete">>,
      <<<<"d", "e", "f", "a", "u", "l", "t">>, "kw_default">>,
      <<<<"(">>, "left_paren">>, <<<<")">>, "right_paren">>,
      <<<<"{">>, "left_brace">>, <<<<"}">>, "right_brace">>,
      <<<<"[">>, "left_bracket">>, <<<<"]">>, "right_bracket">>,
      <<<<";">>, "semicolon">>, <<<<",">>, "comma">>, <<<<".">>, "dot">>,
      <<<<"-">>, "minus">>, <<<<"+">>, "plus">>, <<<<"/">>, "slash">>,
      <<<<"*">>, "star">>, <<<<"%">>, "percent">>, <<<<"!">>, "bang">>,
      <<<<"=">>, "equal">>, <<<<"<">>, "less">>, <<<<">">>, "greater">>,
      <<<<"&">>, "ampersand">>, <<<<"|">>, "bar">>, <<<<":">>, "colon">>,
      <<<<"!", "=">>, "bang_equal">>, <<<<"=", "=">>, "equal_equal">>,
      <<<<"<", "=">>, "less_equal">>, <<<<">", "=">>, "greater_equal">>,
      <<<<":", "=">>, "colon_equal">>, <<<<"-", ">">>, "arrow">>,
      <<<<"&", "&">>, "ampersand_ampersand">>, <<<<"|", "|">>, "bar_bar">> }

InLexicon(text) == \E e \in Lexicon : e[1] = text

KindOf(text) == (CHOOSE e \in Lexicon : e[1] = text)[2]

\* the source from character i on, split at whitespace; word is the lexeme so far
RECURSIVE Words(_, _)
Words(i, word) ==
    LET done == IF word = <<>> THEN <<>> ELSE <<word>>
    IN  IF i > Len(source) THEN done
        ELSE IF source[i] \in Whitespace THEN done \o Words(i + 1, <<>>)
        ELSE Words(i + 1, Append(word, source[i]))

\* C18: for a source made only of keywords and punctuation separated by
\* whitespace the scanner reports no error, the texts of its tokens are the
\* lexemes of the source one for one and in order, and the kind of each token is
\* the keyword or punctuation kind of its text.
C18_LexerRoundTrip ==
    LET words == Words(1, <<>>)
    IN  (\A i \in 1..Len(words) : InLexicon(words[i])) =>
            /\ lexing # "error"
            /\ Len(tokens) <= Len(words)
            /\ lexing = "done" => Len(tokens) = Len(words)
            /\ \A i \in 1..Len(tokens) :
                   /\ tokens[i].text = words[i]
                   /\ tokens[i].type = KindOf(words[i])
                   /\ tokens[i].type # "identifier"

\* C18: the source "if <": a keyword and a punctuation token
C18_Witness ==
    /\ lexing = "done"
    /\ source = <<"i", "f", " ", "<">>
    /\ Len(tokens) = 2
    /\ tokens[1].type = "kw_if"
    /\ tokens[2].type = "less"

\* the two-character combinations: <<first, second>>
Combinations ==
    { <<"!", "=">>, <<"=", "=">>, <<"<", "=">>, <<">", "=">>,
      <<":", "=">>, <<"-", ">">>, <<"|", "|">>, <<"&", "&">> }

\* the character after offset o of the source, NUL at its end
CharAt(o) == IF o < Len(source) THEN source[o + 1] ELSE NUL

\* C19: a token that starts a two-character combination has the kind of the
\* combination and a text of length 2; a token whose first character can start
\* a combination that the next character does not complete (or the source ends)
\* has the single-character kind and a text of length 1; no such token is
\* refused.
C19_GreedyPunctuation ==
    /\ \A i \in 1..Len(tokens) :
           LET t == tokens[i]
               a == CharAt(t.offset)
               b == CharAt(t.offset + 1)
           IN  (t.type \notin {"string", "character"}
                    /\ \E e \in Combinations : e[1] = a) =>
                   IF <<a, b>> \in Combinations
                   THEN t.type = KindOf(<<a, b>>) /\ t.text = <<a, b>>
                   ELSE t.type = KindOf(<<a>>) /\ t.text = <<a>>
    /\ lexing = "error" =>
           ~ \E e \in Combinations : e[1] = CharAt(scanner.start)

\* C19: the source "!==": the combination first, then the single character
C19_Witness ==
    /\ lexing = "done"
    /\ Len(tokens) = 2
    /\ tokens[1].type = "bang_equal" /\ Len(tokens[1].text) = 2
    /\ tokens[2].type = "equal" /\ Len(tokens[2].text) = 1

\* the characters of an identifier after its first
IsNameChar(c) == isalpha(c) \/ isdigit(c) \/ c = "_"

\* the maximal run of name characters of the source from offset o on
RECURSIVE NameRun(_)
NameRun(o) ==
    IF o < Len(source) /\ IsNameChar(source[o + 1])
    THEN <<source[o + 1]>> \o NameRun(o + 1)
    ELSE <<>>

\* C20: a token that starts with a letter or with _ is the maximal run of
\* letters, digits and _ from there, of the keyword's kind when the run is a
\* keyword and of kind identifier otherwise; the scanner refuses no such token.
C20_IdentifierLexing ==
    /\ \A i \in 1..Len(tokens) :
           LET t == tokens[i]
               a == CharAt(t.offset)
           IN  (t.type \notin {"string", "character"} /\ (isalpha(a) \/ a = "_")) =>
                   /\ t.text = NameRun(t.offset)
                   /\ t.type = IF InLexicon(t.text) THEN KindOf(t.text) ELSE "identifier"
    /\ lexing = "error" =>
           LET a == CharAt(scanner.start) IN ~ (isalpha(a) \/ a = "_")

\* the maximal run of digits of the source from offset o on
RECURSIVE DigitRun(_)
DigitRun(o) ==
    IF o < Len(source) /\ isdigit(source[o + 1])
    THEN <<source[o + 1]>> \o DigitRun(o + 1)
    ELSE <<>>

\* the characters str stand in the source at offset o
Follows(o, str) ==
    o + Len(str) <= Len(source) /\ SubSeq(source, o + 1, o + Len(str)) = str

\* the number at offset o: its text and its kind
NumberAt(o) ==
    LET run == DigitRun(o)
        e   == o + Len(run)
        suffixed(str, kind) == [text |-> run \o str, type |-> kind]
    IN  IF CharAt(e) = "." /\ isdigit(CharAt(e + 1))
        THEN [text |-> run \o <<".">> \o DigitRun(e + 1), type |-> "float64"]
        ELSE IF Follows(e, <<"u", "6", "4">>) THEN suffixed(<<"u", "6", "4">>, "uint64")
        ELSE IF Follows(e, <<"u">>) THEN suffixed(<<"u">>, "uint64")
        ELSE IF Follows(e, <<"i", "3", "2">>) THEN suffixed(<<"i", "3", "2">>, "int32")
        ELSE IF Follows(e, <<"i", "6", "4">>) THEN suffixed(<<"i", "6", "4">>, "int64")
        ELSE suffixed(<<>>, "int64")

\* C21: a token that starts with a digit is the maximal digit run, extended over
\* a fraction (kind float64) when the run is followed by . and a digit, and
\* otherwise extended over a directly following suffix: u64 or u (uint64, the
\* longer first), i32 (int32), i64 (int64); without suffix it is int64; a . that
\* no digit follows is not in the text; the scanner refuses no such token.
C21_NumberLexing ==
    /\ \A i \in 1..Len(tokens) :
           LET t == tokens[i]
           IN  (t.type \notin {"string", "character"} /\ isdigit(CharAt(t.offset))) =>
                   /\ t.text = NumberAt(t.offset).text
                   /\ t.type = NumberAt(t.offset).type
    /\ lexing = "error" => ~ isdigit(CharAt(scanner.start))

\* C21: the source 6u64: the longer suffix is taken
C21_Witness ==
    /\ lexing = "done"
    /\ Len(tokens) = 1
    /\ tokens[1].text = <<"6", "u", "6", "4">> /\ tokens[1].type = "uint64"

\* the offset of the first character from o on that is neither whitespace nor
\* in a #-comment; Len(source) when there is none
RECURSIVE TokenStart(_, _)
TokenStart(o, comment) ==
    IF o >= Len(source) THEN Len(source)
    ELSE IF comment THEN TokenStart(o + 1, source[o + 1] # "\n")
    ELSE IF source[o + 1] \in Whitespace THEN TokenStart(o + 1, FALSE)
    ELSE IF source[o + 1] = "#" THEN TokenStart(o + 1, TRUE)
    ELSE o

\* the characters that start a token
StartsToken(c) ==
    \/ isalpha(c) \/ isdigit(c) \/ c \in Quotes
    \/ \E e \in Lexicon : e[1][1] = c

\* the offsets after o at which the delimiter of the literal opened at o stands
Closings(o) == { j \in (o + 1)..(Len(source) - 1) : source[j + 1] = source[o + 1] }

\* the input at the next token is one the lexer must refuse: an unterminated
\* literal, a character literal that does not hold one character, or a
\* character that starts no token
Offending ==
    LET o == TokenStart(scanner.curr, FALSE)
        c == CharAt(o)
    IN  /\ o < Len(source)
        /\ \/ c \in Quotes /\ Closings(o) = {}
           \/ c = "'" /\ Closings(o) # {}
                /\ (CHOOSE j \in Closings(o) : \A k \in Closings(o) : j <= k) # o + 2
           \/ ~ StartsToken(c)

\* C22: a call of get_token on an unterminated string or character literal, on
\* a character literal whose inner text is not exactly one character, or on a
\* character that starts no token ends the process with code 1 and emits no
\* token; get_token ends the process in no other case; after the error nothing
\* more is lexed.
C22_LexErrorsAreFatal ==
    [][ /\ (lexing = "ready" /\ Offending) =>
               (lexing' = "error" /\ exit_code' = 1 /\ tokens' = tokens)
        /\ (lexing = "ready" /\ ~Offending) => (lexing' # "error" /\ exit_code' = Alive)
        /\ lexing = "error" => UNCHANGED vars ]_vars

\* C22: a token was emitted, then the scanner met a string with no closing quote
C22_Witness ==
    /\ lexing = "error"
    /\ exit_code = 1
    /\ Len(tokens) = 1
    /\ CharAt(scanner.start) = "\""

\* C26: a function_call(target, args_size) with 16 <= args_size <= stack size
\* leaves the size of the stack and the heap as they are and changes only the 16
\* bytes at new_base = stack size - args_size: they hold the old base_ptr, then
\* the old prog_ptr + 1; every byte below new_base and every argument byte from
\* new_base + 16 on is unchanged.
C26_FunctionCallFrame ==
    [][ (steps' = steps + 1 /\ last'.kind = "function_call"
            /\ 2 * WordSize <= last'.size /\ last'.size <= Len(stack)) =>
            LET new_base == Len(stack) - last'.size
            IN  /\ Len(stack') = Len(stack)
                /\ \A i \in 1..Len(stack) :
                       (i <= new_base \/ i > new_base + 2 * WordSize) => stack'[i] = stack[i]
                /\ read_bytes(stack', new_base, WordSize) = to_bytes(base_ptr)
                /\ read_bytes(stack', new_base + WordSize, WordSize) = to_bytes(prog_ptr + 1)
                /\ heap' = heap ]_vars

\* C26: a call with one 8-byte argument above the two slots, made with one
\* more 8-byte value below the frame
C26_Witness ==
    /\ last.kind = "function_call"
    /\ last.size = 3 * WordSize
    /\ Len(stack) = 4 * WordSize
    /\ base_ptr = WordSize

\* the bytes [offset, offset + n) of the region the pointer ptr selects exist,
\* once the pointer is popped
InsideRegion(ptr, n) ==
    IF get_top_bit(ptr)
    THEN region_offset(ptr) + n <= Len(heap)
    ELSE region_offset(ptr) + n <= Len(stack) - WordSize

\* C28: every load(n) and save(n) either touches only bytes inside the region
\* its pointer selects (offset + n <= size of the stack or of the heap) or
\* ends the VM with the invalid-memory-address error with nothing read or
\* written: the stack only loses the pointer and the heap is unchanged.
C28_MemoryAccessBounds ==
    [][ (steps' = steps + 1 /\ last'.kind \in {"load", "save"}) =>
            \/ InsideRegion(pop_value(stack), last'.size)
            \/ /\ status' = "failed"
               /\ stack' = drop_bytes(stack, WordSize)
               /\ heap' = heap ]_vars

\* C29: a save(n) whose pointer has the rom bit set (and, as in every
\* well-formed pointer, not the heap bit) ends the VM with a runtime error;
\* the stack below the popped pointer and the heap are unchanged.
C29_RomWriteIsFatal ==
    [][ (steps' = steps + 1 /\ last'.kind = "save"
            /\ is_rom_ptr(pop_value(stack)) /\ ~is_heap_ptr(pop_value(stack))) =>
            /\ status' = "failed"
            /\ Len(output') = Len(output) + 1
            /\ output'[Len(output')].msg = "tried to access invalid memory address"
            /\ stack' = drop_bytes(stack, WordSize)
            /\ heap' = heap
            /\ prog_ptr' = prog_ptr ]_vars

\* C29: a save through a rom pointer has ended the VM
C29_Witness ==
    /\ last.kind = "save"
    /\ is_rom_ptr(last.ptr)
    /\ status = "failed"
    /\ Len(stack) >= WordSize

-----------------------------------------------------------------------------
(* Operand order and stack effect of the binary ops *)

\* the eight bytes of a u64 n < 2^31, least significant first
Digits(n) ==
    <<n % 256, (n \div 256) % 256, (n \div 65536) % 256, (n \div 16777216) % 256,
      0, 0, 0, 0>>
\* the eight bytes of 2^64 - n, for 0 < n < 2^24
NegatedDigits(n) == [i \in 1..8 |-> 255 - Digits(n - 1)[i]]
\* the integer eight bytes stand for, when the upper five are zero
Number(w) == w[1] + 256 * w[2] + 65536 * w[3]

\* the operand pushed first and the operand pushed second, on top, before a
\* binary op of 64-bit operands; what lies beneath them
PushedFirst  == Number(SubSeq(stack, Len(stack) - 15, Len(stack) - 8))
PushedSecond == Number(SubSeq(stack, Len(stack) - 7, Len(stack)))
Beneath(n)   == SubSeq(stack, 1, Len(stack) - n)

\* the op left an integer, or a bool, on what was beneath its operands
LeavesNumber(w) == stack' = Beneath(16) \o w /\ Len(stack') = Len(stack) - 8
LeavesBool(b)   == stack' = Beneath(16) \o <<IF b THEN 1 ELSE 0>>
                   /\ Len(stack') = Len(stack) - (2 * 8 - 1)

\* C27: every arithmetic or comparison op takes the value pushed first as its
\* left operand and the value on top as its right operand, pushes op(left,
\* right) on the untouched rest of the stack, and so shrinks the stack by
\* size(T) (arithmetic) or by 2 * size(T) - 1 (comparison)
C27_OperandOrder ==
    [][(steps' = steps + 1 /\ last'.kind = "binary_op" /\ ~last'.undefined) =>
       IF last'.size = 8 THEN
        /\ op_u64_add => LeavesNumber(Digits(PushedFirst + PushedSecond))
        /\ op_u64_sub => LeavesNumber(IF PushedFirst >= PushedSecond
                                      THEN Digits(PushedFirst - PushedSecond)
                                      ELSE NegatedDigits(PushedSecond - PushedFirst))
        /\ op_u64_div => LeavesNumber(Digits(PushedFirst \div PushedSecond))
        /\ op_u64_lt => LeavesBool(PushedFirst < PushedSecond)
        /\ op_u64_le => LeavesBool(PushedFirst <= PushedSecond)
        /\ op_u64_gt => LeavesBool(PushedFirst > PushedSecond)
        /\ op_u64_ge => LeavesBool(PushedFirst >= PushedSecond)
       ELSE
        /\ stack' = Beneath(2) \o <<IF stack[Len(stack) - 1] # 0 /\ stack[Len(stack)] # 0
                                    THEN 1 ELSE 0>>
        /\ Len(stack') = Len(stack) - (2 * 1 - 1)]_vars

\* a subtraction whose left operand, pushed first, was the smaller one: the
\* difference wrapped around, above the byte that was beneath the operands
C27_Witness ==
    /\ steps = 1 /\ last.kind = "binary_op" /\ last.size = 8 /\ last.pre_size = 17
    /\ stack = <<7>> \o NegatedDigits(257)

-----------------------------------------------------------------------------
(* Stack underflow in debug mode *)

\* the op dispatched by this step of the debug loop needs more bytes than the
\* stack holds
Underflows ==
    /\ debug
    /\ steps' = steps + 1
    /\ last'.kind \in {"pop", "function_call"}
    /\ last'.size > Len(stack)

\* C30: in debug mode an op that needs more bytes than the stack holds is not
\* executed: the VM reports a runtime error and exits, and the stack size does
\* not wrap around
C30_UnderflowReported ==
    [][Underflows =>
        /\ status' = "failed"
        /\ stack' = stack /\ base_ptr' = base_ptr
        /\ ~last'.undefined]_vars

-----------------------------------------------------------------------------
(* The scanner and the parser's table *)

\* the token kinds with a rule in the parser's table
RuleKinds == { r[1] : r \in rules }

\* the token kinds some branch of the scanner gives to a token
ScannerKinds ==
    { e[2] : e \in identifier_types } \cup { e[2] : e \in single_cases }
    \cup { e[3] : e \in match_cases } \cup { e[4] : e \in match_cases }
    \cup { "identifier", "int32", "int64", "uint64", "float64", "character", "string",
           "eof" }

\* C23: a `@` in the source is accepted by the scanner, which emits a token of
\* kind at for it, so that the parser's rule for at (parse_at, a dereference of
\* the expression to its left) is reachable; and every token kind with a rule in
\* the parser's table is a kind the scanner emits
C23_DereferenceReachable ==
    /\ lexing = "error" => CharAt(scanner.start) # "@"
    /\ \A i \in 1..Len(tokens) : tokens[i].text = <<"@">> => tokens[i].type = "at"
    /\ (\E i \in 1..Len(source) : source[i] = "@") => RuleKinds \subseteq ScannerKinds

-----------------------------------------------------------------------------
(* The position of the tokenstream *)

\* what the first n calls of get_token give for the source, one after the
\* other: tokens, the eof token from the end of the input on, and the error that
\* ends the process (repeated, since nothing follows it)
RECURSIVE ScannerSequence(_, _)
ScannerSequence(ctx, n) ==
    IF n = 0 THEN <<>>
    ELSE LET r == get_token(ctx)
         IN  <<r>> \o (IF r.error THEN [i \in 1..(n - 1) |-> r]
                       ELSE ScannerSequence(r.ctx, n - 1))

\* this step is the call name on the tokenstream
Calls(name) == called'.name = name /\ called' # called

\* the call advanced the tokenstream by exactly one, or left it as it was
AdvancesOne == advances' = advances + 1 /\ stream'.curr = stream.next /\ exit_code' = Alive
StaysPut    == advances' = advances /\ stream' = stream /\ exit_code' = Alive

\* C25: while the process lives, curr is token advances and next is token
\* advances + 1 of the scanner's sequence, counted from 0; consume_maybe(kind)
\* advances by exactly one and returns true when curr has the kind, and
\* otherwise returns false and leaves the stream alone; consume_only(kind)
\* advances by one and returns the old curr when it matches, and ends the
\* process on a mismatch or at the end of the input; peek and peek_next tell
\* whether curr or next has the kind and never advance. (A call that advances
\* asks the scanner for token advances + 2: the statements about it are for a
\* source where that token lexes.)
C25_StreamPosition ==
    [][ LET seq      == ScannerSequence(NoScanner, advances + 3)
            Lexes    == ~seq[advances + 3].error
            Kind(k)  == seq[k + 1].token.type
        IN
        /\ (called'.name # "none" /\ exit_code' = Alive) =>
               /\ stream'.curr = seq[advances' + 1].token
               /\ stream'.next = seq[advances' + 2].token
        /\ (Calls("consume") /\ Lexes) =>
               AdvancesOne /\ called'.token = stream.curr
        /\ (Calls("consume_maybe") /\ Lexes) =>
               IF Kind(advances) = called'.tt
               THEN AdvancesOne /\ called'.ret = TRUE
               ELSE StaysPut /\ called'.ret = FALSE
        /\ (Calls("consume_only") /\ Lexes) =>
               IF Kind(advances) = called'.tt
               THEN AdvancesOne /\ called'.token = stream.curr
               ELSE exit_code' = 1 /\ advances' = advances
        /\ Calls("peek") =>
               StaysPut /\ (called'.ret <=> Kind(advances) = called'.tt)
        /\ Calls("peek_next") =>
               StaysPut /\ (called'.ret <=> Kind(advances + 1) = called'.tt) ]_vars

\* the source 6+x after two advances, the second a consume_maybe(plus) that
\* returned true: curr is the identifier, next the end of the input
C25_Witness ==
    /\ source = <<"6", "+", "x">>
    /\ advances = 2
    /\ called.name = "consume_maybe" /\ called.tt = "plus" /\ called.ret = TRUE
    /\ stream.curr.type = "identifier" /\ stream.next.type = "eof"
    /\ exit_code = Alive

-----------------------------------------------------------------------------
(* The structure the parser gives to binary operators *)

\* the tokens of the source before the end of the input
SourceTokens ==
    LET seq == ScannerSequence(NoScanner, Len(source) + 1)
    IN  [i \in 1..Cardinality({j \in 1..Len(seq) : ~seq[j].error /\ seq[j].token.type # "eof"})
            |-> seq[i].token]

\* the level of a binary operator, from the lowest, OR, to the highest, FACTOR
Level(kind) ==
    CASE kind = "bar_bar" -> 1
      [] kind = "ampersand_ampersand" -> 2
      [] kind \in {"equal_equal", "bang_equal"} -> 3
      [] kind \in {"less", "less_equal", "greater", "greater_equal"} -> 4
      [] kind \in {"plus", "minus"} -> 5
      [] kind \in {"star", "slash", "percent"} -> 6
      [] OTHER -> 0

\* the operators among tokens lo..hi that stand inside no bracket opened there
OutsideGroups(toks, lo, hi) ==
    { i \in lo..hi :
        /\ Level(toks[i].type) > 0
        /\ Cardinality({j \in lo..(i - 1) : toks[j].type = "left_paren"})
             = Cardinality({j \in lo..(i - 1) : toks[j].type = "right_paren"}) }

\* the tree of tokens lo..hi: a single operand is a leaf, a group is the tree
\* of what it encloses, and otherwise the root is the last of the operators of
\* the lowest level outside every group, over the trees to its left and right
RECURSIVE Tree(_, _, _)
Tree(toks, lo, hi) ==
    LET ops  == OutsideGroups(toks, lo, hi)
        root == CHOOSE i \in ops :
                    \A j \in ops : \/ Level(toks[i].type) < Level(toks[j].type)
                                   \/ Level(toks[i].type) = Level(toks[j].type) /\ j <= i
    IN  IF lo = hi
        THEN [type |-> IF toks[lo].type = "int64" THEN "node_literal_i64_expr"
                       ELSE "node_name_expr",
              token |-> toks[lo], children |-> <<>>]
        ELSE IF ops = {} THEN Tree(toks, lo + 1, hi - 1)
        ELSE [type |-> "node_binary_op_expr", token |-> toks[root],
              children |-> <<Tree(toks, lo, root - 1), Tree(toks, root + 1, hi)>>]

\* a node without what the handlers fill in afterwards
RECURSIVE Shape(_)
Shape(node) ==
    [type |-> node.type, token |-> node.token,
     children |-> [i \in 1..Len(node.children) |-> Shape(node.children[i])]]

\* C24: an expression of operands joined by binary operators parses into the
\* tree the precedence levels OR < AND < EQUALITY < COMPARISON < TERM < FACTOR
\* give with left associativity, a parenthesised group counting as one operand:
\* a op1 b op2 c is (a op1 b) op2 c when prec(op2) <= prec(op1), and
\* a op1 (b op2 c) when prec(op2) > prec(op1)
C24_BinaryStructure ==
    (called.name = "parse_expression" /\ source \notin Malformed) =>
        LET toks == SourceTokens IN
        /\ exit_code = Alive
        /\ stream.curr.type = "eof"
        /\ Shape(ast) = Tree(toks, 1, Len(toks))
        /\ (Len(toks) = 5 /\ Level(toks[2].type) > 0 /\ Level(toks[4].type) > 0) =>
               IF Level(toks[4].type) <= Level(toks[2].type)
               THEN /\ ast.token = toks[4]
                    /\ ast.children[1].token = toks[2]
                    /\ ast.children[1].children[1].token = toks[1]
                    /\ ast.children[1].children[2].token = toks[3]
                    /\ ast.children[2].token = toks[5]
               ELSE /\ ast.token = toks[2]
                    /\ ast.children[1].token = toks[1]
                    /\ ast.children[2].token = toks[4]
                    /\ ast.children[2].children[1].token = toks[3]
                    /\ ast.children[2].children[2].token = toks[5]

\* x - (x+6) * x has been parsed: the root is the minus, its right operand the
\* product, and the left operand of the product the sum inside the group
C24_Witness ==
    /\ called.name = "parse_expression" /\ exit_code = Alive
    /\ source = <<"x", "-", "(", "x", "+", "6", ")", "*", "x">>
    /\ ast.token.type = "minus"
    /\ ast.children[2].token.type = "star"
    /\ ast.children[2].children[1].token.type = "plus"
    /\ ast.children[2].children[1].children[2].type = "node_literal_i64_expr"

-----------------------------------------------------------------------------
(* The positions of the tokens *)

\* the line and the column, both counted from 1, of the character at offset o
LineOf(o) == 1 + Cardinality({ i \in 1..o : source[i] = "\n" })
ColumnOf(o) ==
    LET breaks == { i \in 1..o : source[i] = "\n" }
    IN  IF breaks = {} THEN o + 1
        ELSE o + 1 - (CHOOSE i \in breaks : \A j \in breaks : j <= i)

\* C31: the line and col of every token the scanner emits are the line and the
\* column of the token's first character (for a literal, of its opening quote),
\* whatever precedes the token: a comment, a token whose suffix match failed,
\* a string over several lines
C31_TokenPositions ==
    \A i \in 1..Len(tokens) :
        LET first == IF tokens[i].type \in {"string", "character"}
                     THEN tokens[i].offset - 1 ELSE tokens[i].offset
        IN  /\ tokens[i].line = LineOf(first)
            /\ tokens[i].col = ColumnOf(first)

(* The bounds of the scanner *)

\* the iterators of the scanner stay in the source
WithinSource == scanner.start <= scanner.curr /\ scanner.curr <= Len(source)

\* C32: in every state of the scanner start <= curr <= end, and the scanner has
\* read no character at a position at or after end
C32_ScannerBounds == WithinSource /\ scanner.peeked < Len(source)

(* The termination of the scanner *)

\* a call on a scanner with unread input consumes a byte or ends the process
Consumes ==
    scanner.curr # Len(source) => scanner'.curr > scanner.curr \/ lexing' = "error"

\* a call after eof returns eof again and leaves curr at end
EofAgain ==
    (tokens # <<>> /\ tokens[Len(tokens)].type = "eof") =>
        /\ Len(tokens') = Len(tokens) + 1
        /\ tokens'[Len(tokens')].type = "eof"
        /\ scanner'.curr = Len(source)

\* eof has been returned, or the process has ended
Ended == lexing = "error" \/ eofs > 0

\* C33: every call of get_token on a scanner with unread input consumes at least
\* one byte of the source or ends the process, so the calls reach eof (or the end
\* of the process) after finitely many; after eof every further call returns eof
\* again and leaves curr at end
C33_LexingTerminates == [][Consumes /\ EofAgain]_vars /\ <>Ended

\* C33 witness: a source with a token has been lexed to eof, and eof has been
\* returned a second time
C33_Witness ==
    /\ eofs = MaxEofs
    /\ Len(tokens) > MaxEofs
    /\ scanner.curr = Len(source)

(* The handlers the loop of parse_precedence calls *)

\* the precedences of the call sites of parse_precedence: parse_expression,
\* parse_unary, and parse_binary for every operator it is the handler of
CalledWith ==
    { precedence.PREC_OR, precedence.PREC_UNARY }
        \cup { r[4] + 1 : r \in { q \in rules : q[3] = "parse_binary" } }

\* every kind the loop takes at a precedence it is called with has a handler
LoopHandlers ==
    \A prec \in CalledWith : \A tt \in RuleKinds \cup ScannerKinds :
        /\ prec >= precedence.PREC_OR
        /\ get_rule(tt).prec >= prec => get_rule(tt).midfix # "nullptr"

\* the last token of the source, or the eof behind it
LastToken ==
    LET seq == ScannerSequence(NoScanner, Len(source) + 1)
    IN  seq[Cardinality({ j \in 1..Len(seq) : seq[j].token.type # "eof" })].token

\* C34: parse_precedence ends the process without consuming a token when the
\* rule of the current token has no prefix handler, at the start of an
\* expression and inside one; every token kind whose rule has at least the
\* precedence of a call of parse_precedence (OR or higher) has a midfix handler,
\* and the loop never calls a handler that is nullptr
C34_HandlersPresent ==
    [][ called'.name = "parse_expression" =>
            /\ LoopHandlers
            /\ ast'.type # "undefined"
            /\ get_rule(stream.curr.type).prefix = "nullptr" =>
                   exit_code' = 1 /\ stream' = stream /\ ast' = NoNode
            /\ (source \in Headless /\ source # <<>>) =>
                   /\ exit_code' = 1 /\ ast' = NoNode
                   /\ get_rule(stream'.curr.type).prefix = "nullptr"
                   /\ IF source = <<"a", "+">> THEN stream'.curr.type = "eof"
                      ELSE stream'.curr = LastToken /\ stream'.next.type = "eof"
            /\ source \in Trailing =>
                   /\ exit_code' = Alive
                   /\ get_rule(stream'.curr.type).prec < precedence.PREC_OR
                   /\ stream'.curr.type = "eof" <=> source = <<"6", "i", "3", "2">> ]_vars

\* C34 witness: the parse of `a[+` has ended at the `+`, which has no prefix
\* handler, with the `a` and the `[` consumed
C34_Witness ==
    /\ called.name = "parse_expression" /\ exit_code = 1
    /\ source = <<"a", "[", "+">>
    /\ stream.curr.type = "plus" /\ stream.curr.offset = 2

(* The trees of operands with prefix operators and postfix forms *)

\* a node without the value of a literal
RECURSIVE Named(_)
Named(node) ==
    [type |-> node.type, token |-> node.token, name |-> node.name,
     children |-> [i \in 1..Len(node.children) |-> Named(node.children[i])]]

\* the node and all the nodes below it
RECURSIVE Nodes(_)
Nodes(node) ==
    {node} \cup UNION { Nodes(node.children[i]) : i \in 1..Len(node.children) }

\* the brackets tokens lo..(i - 1) have opened and not closed
Depth(toks, lo, i) ==
    Cardinality({ j \in lo..(i - 1) : toks[j].type \in {"left_paren", "left_bracket"} })
        - Cardinality({ j \in lo..(i - 1) : toks[j].type \in {"right_paren", "right_bracket"} })

\* the bracket that the closing bracket at hi closes, and the bracket that
\* closes the one opened at lo
Opening(toks, hi) ==
    CHOOSE j \in 1..(hi - 1) :
        /\ toks[j].type \in {"left_paren", "left_bracket"} /\ Depth(toks, j + 1, hi) = 0
        /\ \A k \in (j + 1)..(hi - 1) :
               ~(toks[k].type \in {"left_paren", "left_bracket"} /\ Depth(toks, k + 1, hi) = 0)
Closing(toks, lo) ==
    CHOOSE k \in (lo + 1)..Len(toks) :
        /\ Depth(toks, lo, k + 1) = 0
        /\ \A j \in (lo + 1)..(k - 1) : Depth(toks, lo, j + 1) # 0

\* a token that ends an operand: what follows it is no prefix operator
EndsOperand(kind) ==
    kind \in {"identifier", "int32", "int64", "uint64", "right_paren", "right_bracket",
              "ampersand"}

\* the binary operators among tokens lo..hi outside every bracket opened there
Binaries(toks, lo, hi) ==
    { i \in (lo + 1)..hi :
        Level(toks[i].type) > 0 /\ Depth(toks, lo, i) = 0 /\ EndsOperand(toks[i - 1].type) }

\* the tokens of kind among lo..hi outside every bracket opened there
Separators(toks, lo, hi, kind) ==
    { i \in lo..hi : toks[i].type = kind /\ Depth(toks, lo, i) = 0 }

Node(type, tok, children, name) ==
    [type |-> type, token |-> tok, children |-> children, name |-> name]

Leaf(tok) ==
    Node(CASE tok.type = "int32" -> "node_literal_i32_expr"
           [] tok.type = "int64" -> "node_literal_i64_expr"
           [] tok.type = "uint64" -> "node_literal_u64_expr"
           [] OTHER -> "node_name_expr", tok, <<>>, <<>>)

\* the tree of the expression in tokens lo..hi, read from its end: the root is
\* the last binary operator of the lowest level, or the prefix operator in
\* front, or the last postfix form of the operand
RECURSIVE Expr(_, _, _)
RECURSIVE Chain(_, _, _)
RECURSIVE Args(_, _, _)
Expr(toks, lo, hi) ==
    LET ops  == Binaries(toks, lo, hi)
        root == CHOOSE i \in ops :
                    \A j \in ops : \/ Level(toks[i].type) < Level(toks[j].type)
                                   \/ Level(toks[i].type) = Level(toks[j].type) /\ j <= i
    IN  IF ops # {}
        THEN Node("node_binary_op_expr", toks[root],
                  <<Expr(toks, lo, root - 1), Expr(toks, root + 1, hi)>>, <<>>)
        ELSE IF toks[lo].type \in {"minus", "bang"}
        THEN Node("node_unary_op_expr", toks[lo], <<Expr(toks, lo + 1, hi)>>, <<>>)
        ELSE Chain(toks, lo, hi)

\* the expressions between the commas of tokens lo..hi
Args(toks, lo, hi) ==
    LET commas == Separators(toks, lo, hi, "comma")
        first  == CHOOSE i \in commas : \A j \in commas : i <= j
    IN  IF lo > hi THEN <<>>
        ELSE IF commas = {} THEN <<Expr(toks, lo, hi)>>
        ELSE <<Expr(toks, lo, first - 1)>> \o Args(toks, first + 1, hi)

Chain(toks, lo, hi) ==
    LET final == toks[hi].type
        open  == Opening(toks, hi)
        colon == Separators(toks, open + 1, hi - 1, "colon")
    IN  IF lo = hi THEN Leaf(toks[lo])
        ELSE IF final = "ampersand"
        THEN Node("node_addrof_expr", toks[hi], <<Chain(toks, lo, hi - 1)>>, <<>>)
        ELSE IF final = "identifier"
        THEN Node("node_field_expr", toks[hi - 1], <<Chain(toks, lo, hi - 2)>>, toks[hi].text)
        ELSE IF final = "right_paren" /\ open = lo THEN Expr(toks, lo + 1, hi - 1)
        ELSE IF final = "right_paren" /\ open - 2 > lo /\ toks[open - 2].type = "dot"
        THEN Node("node_member_call_expr", toks[open - 2],
                  <<Chain(toks, lo, open - 3)>> \o Args(toks, open + 1, hi - 1),
                  toks[open - 1].text)
        ELSE IF final = "right_paren"
        THEN Node("node_call_expr", toks[open],
                  <<Chain(toks, lo, open - 1)>> \o Args(toks, open + 1, hi - 1), <<>>)
        ELSE IF open + 1 = hi
        THEN Node("node_span_expr", toks[open], <<Chain(toks, lo, open - 1)>>, <<>>)
        ELSE IF colon # {}
        THEN LET c == CHOOSE c \in colon : TRUE
             IN  Node("node_span_expr", toks[open],
                      <<Chain(toks, lo, open - 1), Expr(toks, open + 1, c - 1),
                        Expr(toks, c + 1, hi - 1)>>, <<>>)
        ELSE Node("node_subscript_expr", toks[open],
                  <<Chain(toks, lo, open - 1), Expr(toks, open + 1, hi - 1)>>, <<>>)

\* the source is an operand with prefix operators, postfix forms and a tail
Regular == source \notin Headless \cup Unclosed \cup Trailing

\* where the operand starts that the postfix form at token m stands behind
OperandStart(toks, m) ==
    CHOOSE s \in 1..(m - 1) :
        LET starts(i) == /\ toks[i].type \in {"identifier", "int64", "left_paren"}
                         /\ Depth(toks, i, m) = 0
                         /\ i > 1 => (~EndsOperand(toks[i - 1].type)
                                          /\ toks[i - 1].type # "dot")
        IN  starts(s) /\ \A i \in (s + 1)..(m - 1) : ~starts(i)

\* C35: behind an expression e, `[` `]` gives a span node over e without bounds,
\* `[a:b]` a span node over e with the lower bound a and the upper bound b, and
\* `[i]` a subscript node over e with the index i; the form ends with its `]`, so
\* that what follows is parsed behind it, and a source in which the `]` is
\* missing ends the process
C35_BracketForms ==
    called.name = "parse_expression" =>
        LET toks == SourceTokens IN
        /\ source \in Unclosed => exit_code = 1
        /\ (Regular /\ \E m \in 1..Len(toks) : toks[m].type = "left_bracket") =>
               /\ exit_code = Alive
               /\ stream.curr.type = "eof"
               /\ Named(ast) = Expr(toks, 1, Len(toks))
               /\ \A m \in { i \in 1..Len(toks) : toks[i].type = "left_bracket" } :
                      \E node \in Nodes(Named(ast)) :
                          LET k     == Closing(toks, m)
                              colon == Separators(toks, m + 1, k - 1, "colon")
                          IN  /\ node.token = toks[m]
                              /\ node.children[1] = Chain(toks, OperandStart(toks, m), m - 1)
                              /\ IF k = m + 1
                                 THEN node.type = "node_span_expr" /\ Len(node.children) = 1
                                 ELSE IF colon # {}
                                 THEN /\ node.type = "node_span_expr"
                                      /\ Len(node.children) = 3
                                      /\ \E c \in colon :
                                             /\ node.children[2] = Expr(toks, m + 1, c - 1)
                                             /\ node.children[3] = Expr(toks, c + 1, k - 1)
                                 ELSE /\ node.type = "node_subscript_expr"
                                      /\ Len(node.children) = 2
                                      /\ node.children[2] = Expr(toks, m + 1, k - 1)

\* C35 witness: a[a:6][] * b has been parsed: the product of the span without
\* bounds over the span a[a:6], and b
C35_Witness ==
    /\ called.name = "parse_expression" /\ exit_code = Alive
    /\ source = <<"a", "[", "a", ":", "6", "]", "[", "]", " ", "*", " ", "b">>
    /\ ast.token.type = "star"
    /\ ast.children[1].type = "node_span_expr" /\ Len(ast.children[1].children) = 1
    /\ ast.children[1].children[1].type = "node_span_expr"
    /\ ast.children[1].children[1].children[3].type = "node_literal_i64_expr"

(* The operand of a prefix operator *)

\* the rules of the postfix forms are at the level CALL, above the level UNARY of
\* the operand, and the rules of the binary operators below it
PostfixLevels ==
    /\ \A kind \in {"left_paren", "left_bracket", "dot", "ampersand", "at", "kw_const"} :
           /\ get_rule(kind).prec = precedence.PREC_CALL
           /\ get_rule(kind).midfix # "nullptr"
    /\ \A r \in rules : r[3] = "parse_binary" => r[4] < precedence.PREC_UNARY

\* C36: the operand of a prefix `-` or `!` is the primary behind it with all the
\* postfix forms that follow directly (call, subscript and span, field and
\* member call, `&`; `@` and `const` have rules of the same level), and nothing
\* else: a binary operator behind the operand takes the prefix node as its left
\* operand, and a prefix operator behind a prefix operator gives nested prefix
\* nodes
C36_UnaryBinding ==
    (called.name = "parse_expression" /\ Regular
        /\ source # <<>> /\ source[1] \in {"-", "!"}) =>
        /\ PostfixLevels
        /\ LET toks  == SourceTokens
               tail  == Binaries(toks, 1, Len(toks))
               end   == IF tail = {} THEN Len(toks) ELSE (CHOOSE i \in tail : TRUE) - 1
               unary == IF tail = {} THEN ast ELSE ast.children[1]
               inner == unary.children[1]
           IN  /\ exit_code = Alive
               /\ stream.curr.type = "eof"
               /\ Cardinality(tail) <= 1
               /\ Named(ast) = Expr(toks, 1, Len(toks))
               /\ tail # {} =>
                      /\ ast.type = "node_binary_op_expr"
                      /\ ast.token = toks[end + 1]
                      /\ Named(ast.children[2]) = Leaf(toks[Len(toks)])
               /\ unary.type = "node_unary_op_expr" /\ unary.token = toks[1]
               /\ IF toks[2].type \in {"minus", "bang"}
                  THEN /\ inner.type = "node_unary_op_expr" /\ inner.token = toks[2]
                       /\ Named(inner.children[1]) = Chain(toks, 3, end)
                  ELSE Named(inner) = Chain(toks, 2, end)

\* C36 witness: !-a.f(x) == b has been parsed: the root is the ==, its left
\* operand the `!` over the `-` over the member call
C36_Witness ==
    /\ called.name = "parse_expression" /\ exit_code = Alive
    /\ source = <<"!", "-", "a", ".", "f", "(", "x", ")", " ", "=", "=", " ", "b">>
    /\ ast.token.type = "equal_equal"
    /\ ast.children[1].token.type = "bang"
    /\ ast.children[1].children[1].token.type = "minus"
    /\ ast.children[1].children[1].children[1].type = "node_member_call_expr"
    /\ ast.children[1].children[1].children[1].name = <<"f">>

----------------------------------------------------------------------------
(* The values of integer tokens *)

Decimal == <<"0", "1", "2", "3", "4", "5", "6", "7", "8", "9">>
Figure(c) == (CHOOSE k \in 1..10 : Decimal[k] = c) - 1

\* the digits at the front of the source, and what follows them
RunLength ==
    CHOOSE n \in 0..Len(source) :
        /\ \A i \in 1..n : \E k \in 1..10 : Decimal[k] = source[i]
        /\ n < Len(source) => \A k \in 1..10 : Decimal[k] # source[n + 1]
TokenDigits == SubSeq(source, 1, RunLength)
Suffix   == SubSeq(source, RunLength + 1, Len(source))

\* a digit run without the zeros in front of it: the empty run is zero
RECURSIVE Unpadded(_)
Unpadded(run) == IF run # <<>> /\ Head(run) = "0" THEN Unpadded(Tail(run)) ELSE run

\* the type the suffix gives the token, and the largest value of the type
TypeOf(suffix) ==
    CASE suffix = <<>>                 -> "int64"
      [] suffix = <<"i", "6", "4">>    -> "int64"
      [] suffix = <<"i", "3", "2">>    -> "int32"
      [] suffix = <<"u">>              -> "uint64"
      [] suffix = <<"u", "6", "4">>    -> "uint64"
Maximum(type) ==
    CASE type = "int32"  -> <<"2", "1", "4", "7", "4", "8", "3", "6", "4", "7">>
      [] type = "int64"  -> <<"9", "2", "2", "3", "3", "7", "2", "0", "3", "6", "8", "5", "4", "7", "7", "5", "8", "0", "7">>
      [] type = "uint64" -> <<"1", "8", "4", "4", "6", "7", "4", "4", "0", "7", "3", "7", "0", "9", "5", "5", "1", "6", "1", "5">>
Width(type) == IF type = "int32" THEN 2 ELSE 4

\* the number a is greater than the number b, both without zeros in front
Exceeds(a, b) ==
    \/ Len(a) > Len(b)
    \/ /\ Len(a) = Len(b)
       /\ \E i \in 1..Len(a) :
              /\ Figure(a[i]) > Figure(b[i])
              /\ \A j \in 1..(i - 1) : a[j] = b[j]

\* limbs divided by ten, from the highest limb down: the quotient, and the
\* remainder behind it
RECURSIVE TenthOf(_, _)
TenthOf(limbs, carry) ==
    IF limbs = <<>> THEN <<carry>>
    ELSE TenthOf(SubSeq(limbs, 1, Len(limbs) - 1),
                 (carry * 65536 + limbs[Len(limbs)]) % 10)
             \o << (carry * 65536 + limbs[Len(limbs)]) \div 10 >>

\* the decimal digits of a value in limbs, none for zero
RECURSIVE DecimalOf(_)
DecimalWith(tenth) == DecimalOf(Tail(tenth)) \o << Decimal[Head(tenth) + 1] >>
DecimalOf(limbs) ==
    IF \A i \in 1..Len(limbs) : limbs[i] = 0 THEN <<>> ELSE DecimalWith(TenthOf(limbs, 0))

\* the type the conversion asks for, and the integer it gave
Asked ==
    CASE called.name = "consume_i64" -> "int64"
      [] called.name = "consume_u64" -> "uint64"
      [] OTHER                       -> TypeOf(Suffix)
Result == IF called.name = "parse_expression" THEN ast.value ELSE value

====
